---------------------------- MODULE Spec2Model ----------------------------
(***************************************************************************)
(* A model of batch-ai: the facade (src/src/index.ts), the OpenAI adapter  *)
(* (src/unnamed/part_003, providers/openai.ts) and the Anthropic adapter   *)
(* (src/src/providers/anthropic.ts).                                       *)
(*                                                                         *)
(* JavaScript objects are functions whose DOMAIN is the set of the fields  *)
(* that are present: an optional field that is undefined is absent from    *)
(* the DOMAIN.  Every async function is cut at its awaits: one action per  *)
(* segment between two awaits, the position kept in a pc variable.         *)
(***************************************************************************)
EXTENDS Integers, Sequences, FiniteSets, TLC

(***************************************************************************)
(* Bounds of the model.                                                    *)
(***************************************************************************)
\* batch identifiers a caller may pass: "batch-1" .. "batch-<NumBatchIds>"
NumBatchIds == 2
\* longest result array the abstract LanguageModel of the facade returns
MaxResults == 2
\* longest request list handed to createBatch
MaxRequests == 2
\* last value of Date.now() the model reaches (milliseconds)
MaxClock == 1
\* longest text of an OpenAI result file, in characters of the model
MaxTextLen == 4
\* most records an Anthropic result feed delivers
MaxFeed == 2

\* the largest count in a vendor's request_counts
MaxCount == 2

(***************************************************************************)
(* Domain model, src/src/types.ts.                                         *)
(***************************************************************************)
BatchStatus ==
  {"validating", "in_progress", "completed", "failed", "expired",
   "cancelling", "cancelled"}

BatchIdName(i) == "batch-" \o ToString(i)

BatchIds == {BatchIdName(i) : i \in 1..NumBatchIds}

CustomIds == {"request-0", "request-1"}

\* new BatchError(message, code, batchId?): batchId is absent when not given
BatchError(message, code) == [message |-> message, code |-> code]

BatchErrorFor(message, code, batchId) ==
  [message |-> message, code |-> code, batchId |-> batchId]

\* the value of a variable that holds nothing yet
None == [none |-> TRUE]

\* the value of a string variable that holds nothing yet
NoName == ""

(***************************************************************************)
(* The abstract LanguageModel the facade is handed (types.ts 59-80): what  *)
(* its methods may resolve or reject with.                                 *)
(***************************************************************************)
ModelRequestCounts ==
  {[total |-> 3, completed |-> 1, failed |-> 0],
   [total |-> 3, completed |-> 3, failed |-> 0],
   [total |-> 3, completed |-> 0, failed |-> 3]}

ModelBatches ==
  [id : BatchIds, status : BatchStatus, requestCounts : ModelRequestCounts]

ModelResponses ==
  {[customId |-> c, output |-> "positive"] : c \in CustomIds}
    \cup {[customId |-> c, error |-> [code |-> "errored", message |-> "Request failed"]]
            : c \in {"request-0"}}

RECURSIVE SeqsUpTo(_, _)
SeqsUpTo(S, n) ==
  IF n = 0 THEN {<<>>}
  ELSE LET shorter == SeqsUpTo(S, n - 1)
       IN  shorter \cup {Append(s, x) : s \in {t \in shorter : Len(t) = n - 1}, x \in S}

ModelResultArrays == SeqsUpTo(ModelResponses, MaxResults)

ModelErrors ==
  {BatchErrorFor("API error", "batch_retrieval_failed", b) : b \in BatchIds}
    \cup {BatchErrorFor("Batch results not yet available", "results_not_ready", b)
            : b \in BatchIds}

VARIABLES
  fPc,        \* position of the facade call in flight
  fBatchId,   \* its batchId argument
  fParams,    \* createObjectBatch: its requests and outputSchema arguments
  fBatch,     \* the Batch model.getBatch resolved with
  fCalls,     \* the calls made on the model, in order
  fReplies,   \* what the model settled those calls with, in order
  fReturn,    \* the object the facade call resolved with
  fError      \* the error the facade call rejected with

facadeVars ==
  <<fPc, fBatchId, fParams, fBatch, fCalls, fReplies, fReturn, fError>>

VARIABLES
  clock,       \* Date.now()
  fs,          \* the temp directory: file name -> content, for the files that exist
  cPc,         \* per createBatch call: its position
  cProvider,   \* per call: the adapter it runs on, "openai" or "anthropic"
  cRequests,   \* per call: its requests argument
  cJsonlFile,  \* per call: the temp file name createJsonlFile chose
  cWrote,      \* per call: whether its writeFile has written the file
  cFileId,     \* per call: the id of the file it uploaded
  cResult,     \* per call: the batch id it resolved with, or the error it rejected with
  cVendorCalls, \* per call: the vendor endpoints it has called, in order
  oFiles,      \* OpenAI: the uploads received, in order (file-<index>)
  oBatches,    \* OpenAI: the registered batches, in order (batch-<index>)
  aBatches     \* Anthropic: the registered batches, in order (batch-<index>)

createVars ==
  <<clock, fs, cPc, cProvider, cRequests, cJsonlFile, cWrote, cFileId, cResult,
    cVendorCalls, oFiles, oBatches, aBatches>>

VARIABLES
  vStatus,          \* the vendor's native status of its batch, as of now
  opPc,             \* position of the adapter call in flight
  opProvider,       \* the adapter it runs on
  opName,           \* the method called
  opBatchId,        \* its batchId argument
  opVendorCalls,    \* the vendor endpoints the call has called, in order
  opBatch,          \* the record the vendor's retrieve resolved with
  opRaw,            \* the raw result payload the vendor has delivered to the call
  opResponseArray,  \* anthropic.ts 127: the records collected from the feed
  opCaught,         \* the error the call's catch block caught
  opResult          \* what the call resolved with, or the error it rejected with

adapterVars ==
  <<vStatus, opPc, opProvider, opName, opBatchId, opVendorCalls, opBatch, opRaw,
    opResponseArray, opCaught, opResult>>

VARIABLES
  env,          \* process.env: variable name -> value, for the variables that are set
  constructed,  \* the providers whose adapter has been constructed
  config,       \* per provider: this.config of its adapter (types.ts 62)
  client        \* per provider: the options its SDK client was constructed with

constructVars == <<env, constructed, config, client>>

VARIABLES
  pPc,        \* position of the README's processBatch
  pProvider   \* the adapter its model is

vars == <<facadeVars, createVars, adapterVars, constructVars, pPc, pProvider>>

\* what the steps of one component leave alone
notFacade == <<createVars, adapterVars, constructVars, pPc, pProvider>>

notCreate == <<facadeVars, adapterVars, constructVars, pPc, pProvider>>

notAdapter == <<facadeVars, createVars, constructVars, pPc, pProvider>>

notConstruct == <<facadeVars, createVars, adapterVars, pPc, pProvider>>

InitFacade ==
  /\ fPc = "idle"
  /\ fBatchId = None
  /\ fParams = None
  /\ fBatch = None
  /\ fCalls = <<>>
  /\ fReplies = <<>>
  /\ fReturn = None
  /\ fError = None

\* the two callers whose createBatch calls may overlap
Calls == {1, 2}

InitCreate ==
  /\ clock = 0
  /\ fs = [n \in {} |-> <<>>]
  /\ cPc = [p \in Calls |-> "idle"]
  /\ cProvider = [p \in Calls |-> "openai"]
  /\ cRequests = [p \in Calls |-> <<>>]
  /\ cJsonlFile = [p \in Calls |-> NoName]
  /\ cWrote = [p \in Calls |-> FALSE]
  /\ cFileId = [p \in Calls |-> NoName]
  /\ cResult = [p \in Calls |-> None]
  /\ cVendorCalls = [p \in Calls |-> <<>>]
  /\ oFiles = <<>>
  /\ oBatches = <<>>
  /\ aBatches = <<>>

InitAdapter ==
  /\ vStatus = "in_progress"
  /\ opPc = "idle"
  /\ opProvider = "openai"
  /\ opName = NoName
  /\ opBatchId = NoName
  /\ opVendorCalls = <<>>
  /\ opBatch = None
  /\ opRaw = <<>>
  /\ opResponseArray = <<>>
  /\ opCaught = None
  /\ opResult = None

Providers == {"openai", "anthropic"}

InitConstruct ==
  /\ env = [n \in {} |-> ""]
  /\ constructed = {}
  /\ config = [p \in Providers |-> None]
  /\ client = [p \in Providers |-> None]

Init ==
  /\ InitFacade /\ InitCreate /\ InitAdapter /\ InitConstruct
  /\ pPc = "idle" /\ pProvider = "openai"

(***************************************************************************)
(* getObjectBatch, src/src/index.ts 81-96.                                 *)
(***************************************************************************)
ModelCall(op, batchId) == [op |-> op, batchId |-> batchId]

\* how the model settled a call: "resolved" with a value, "rejected" with an error
ModelReply(how, value) == [how |-> how, value |-> value]

\* a guard that also fetches for the other terminal statuses
ShouldFetchResults_AnyTerminal(batch) ==
  batch.status \in {"completed", "failed", "expired", "cancelled"}

\* a guard that never fetches
ShouldFetchResults_Never(batch) == FALSE

\* index.ts 90: the guard on fetching results
ShouldFetchResults(batch) == batch.status = "completed"

\* index.ts 88: const batch = await model.getBatch(batchId)
getObjectBatch(batchId) ==
  /\ fPc = "idle"
  /\ fPc' = "await_getBatch"
  /\ fBatchId' = batchId
  /\ fParams' = None
  /\ fCalls' = <<ModelCall("getBatch", batchId)>>
  /\ fReplies' = <<>>
  /\ fBatch' = None
  /\ fReturn' = None
  /\ fError' = None

\* index.ts 88-95: getBatch resolved; either await getBatchResults or return {batch}
getObjectBatch_getBatchResolved(batch) ==
  /\ fPc = "await_getBatch"
  /\ fReplies' = Append(fReplies, ModelReply("resolved", batch))
  /\ fBatch' = batch
  /\ IF ShouldFetchResults(batch)
       THEN /\ fCalls' = Append(fCalls, ModelCall("getBatchResults", fBatchId))
            /\ fPc' = "await_getBatchResults"
            /\ fReturn' = fReturn
       ELSE /\ fReturn' = [batch |-> batch]
            /\ fPc' = "resolved"
            /\ fCalls' = fCalls
  /\ UNCHANGED <<fBatchId, fParams, fError>>

\* index.ts 88: getBatch rejected; the async function rejects with the same error
getObjectBatch_getBatchRejected(error) ==
  /\ fPc = "await_getBatch"
  /\ fReplies' = Append(fReplies, ModelReply("rejected", error))
  /\ fError' = error
  /\ fPc' = "rejected"
  /\ UNCHANGED <<fBatchId, fParams, fBatch, fCalls, fReturn>>

\* index.ts 91-92: getBatchResults resolved; return {batch, results}
getObjectBatch_getBatchResultsResolved(results) ==
  /\ fPc = "await_getBatchResults"
  /\ fReplies' = Append(fReplies, ModelReply("resolved", results))
  /\ fReturn' = [batch |-> fBatch, results |-> results]
  /\ fPc' = "resolved"
  /\ UNCHANGED <<fBatchId, fParams, fBatch, fCalls, fError>>

\* a facade that answers a failed results fetch with the batch alone
getObjectBatch_getBatchResultsRejected_ReturnsBatch(error) ==
  /\ fPc = "await_getBatchResults"
  /\ fReplies' = Append(fReplies, ModelReply("rejected", error))
  /\ fReturn' = [batch |-> fBatch]
  /\ fPc' = "resolved"
  /\ UNCHANGED <<fBatchId, fParams, fBatch, fCalls, fError>>

\* index.ts 91: getBatchResults rejected
getObjectBatch_getBatchResultsRejected(error) ==
  /\ fPc = "await_getBatchResults"
  /\ fReplies' = Append(fReplies, ModelReply("rejected", error))
  /\ fError' = error
  /\ fPc' = "rejected"
  /\ UNCHANGED <<fBatchId, fParams, fBatch, fCalls, fReturn>>

\* the caller takes the settled promise; the next call may start
FacadeSettled ==
  /\ fPc \in {"resolved", "rejected"}
  /\ fPc' = "idle"
  /\ UNCHANGED <<fBatchId, fParams, fBatch, fCalls, fReplies, fReturn, fError>>

(***************************************************************************)
(* createBatch of both adapters.  A request is a BatchRequest<string>      *)
(* (types.ts 25-29): systemPrompt is optional.                             *)
(***************************************************************************)
Requests ==
  {[customId |-> "request-0", input |-> "Hello",
    systemPrompt |-> "You are a helpful assistant"],
   [customId |-> "request-1", input |-> "How are you?"]}

RequestLists == SeqsUpTo(Requests, MaxRequests) \ {<<>>}

ModelId == [openai |-> "gpt-4", anthropic |-> "claude-3-opus-20240229"]

\* part_003 32-33: path.join(os.tmpdir(), `batch-${Date.now()}.jsonl`)
TempFile(now) == "batch-" \o ToString(now) \o ".jsonl"

\* part_003 43-48: the message list of one request's body
OpenAIMessages(request) == <<[role |-> "user", content |-> request.input]>>

\* part_003 37-51: the object JSON.stringify turns into one line
OpenAIJsonlLine(request, outputSchema) ==
  [custom_id |-> request.customId,
   method |-> "POST",
   url |-> "/v1/chat/completions",
   body |-> [model |-> ModelId.openai,
             messages |-> OpenAIMessages(request),
             response_format |-> [type |-> "json_schema", name |-> "moderation",
                                  schema |-> outputSchema]]]

\* a payload of the first request only
OpenAIJsonlContent_FirstOnly(requests, outputSchema) ==
  <<OpenAIJsonlLine(requests[1], outputSchema)>>

\* part_003 35-53: requests.map(...).join('\n'), kept as the sequence of its
\* lines (JSON.stringify escapes every line break inside a line)
OpenAIJsonlContent(requests, outputSchema) ==
  [i \in 1..Len(requests) |-> OpenAIJsonlLine(requests[i], outputSchema)]

OutputSchema == "schema"

\* anthropic.ts 38-65: the params of one request
AnthropicParams(request, jsonSchema) ==
  [model |-> ModelId.anthropic,
   max_tokens |-> 2048,
   messages |-> <<[role |-> "user", content |-> request.input]>>,
   tools |-> <<[name |-> "format_response",
                description |-> "Format the response according to the required schema",
                input_schema |-> [type |-> "object",
                                  properties |-> [response |-> jsonSchema]]]>>,
   tool_choice |-> [type |-> "tool", name |-> "format_response",
                    disable_parallel_tool_use |-> TRUE]]

\* anthropic.ts 36-66: the requests array handed to batches.create
AnthropicBatchRequests(requests, jsonSchema) ==
  [i \in 1..Len(requests) |->
     [custom_id |-> requests[i].customId,
      params |-> AnthropicParams(requests[i], jsonSchema)]]

FileIdName(i) == "file-" \o ToString(i)

WriteFile(files, name, content) ==
  [n \in DOMAIN files \cup {name} |-> IF n = name THEN content ELSE files[n]]

Unlink(files, name) == [n \in DOMAIN files \ {name} |-> files[n]]

\* part_003 84-89 and anthropic.ts 70-75: catch (error) of createBatch
CreationFailed(message) == BatchError(message, "batch_creation_failed")

createUnchanged(p) == UNCHANGED <<clock, cProvider, cRequests>>

\* part_003 59-65, 28-55: the call, createJsonlFile up to its await of writeFile
OpenAI_createBatch(p, requests) ==
  /\ cPc[p] = "idle"
  /\ cProvider' = [cProvider EXCEPT ![p] = "openai"]
  /\ cRequests' = [cRequests EXCEPT ![p] = requests]
  /\ cJsonlFile' = [cJsonlFile EXCEPT ![p] = TempFile(clock)]
  /\ cPc' = [cPc EXCEPT ![p] = "await_writeFile"]
  /\ UNCHANGED <<cVendorCalls, clock, fs, cWrote, cFileId, cResult, oFiles, oBatches,
                 aBatches>>

\* part_003 55-56, 65-71: writeFile has written; createReadStream, await files.create
OpenAI_writeFileResolved(p) ==
  /\ cPc[p] = "await_writeFile"
  /\ fs' = WriteFile(fs, cJsonlFile[p], OpenAIJsonlContent(cRequests[p], OutputSchema))
  /\ cWrote' = [cWrote EXCEPT ![p] = TRUE]
  /\ cPc' = [cPc EXCEPT ![p] = "await_filesCreate"]
  /\ createUnchanged(p)
  /\ cVendorCalls' = [cVendorCalls EXCEPT ![p] = Append(@, "files.create")]
  /\ UNCHANGED <<cJsonlFile, cFileId, cResult, oFiles, oBatches, aBatches>>

\* part_003 55, 84-89: writeFile failed; nothing was written
OpenAI_writeFileRejected(p) ==
  /\ cPc[p] = "await_writeFile"
  /\ cResult' = [cResult EXCEPT ![p] = CreationFailed("EACCES: permission denied")]
  /\ cPc' = [cPc EXCEPT ![p] = "rejected"]
  /\ createUnchanged(p)
  /\ UNCHANGED <<cVendorCalls, fs, cJsonlFile, cWrote, cFileId, oFiles, oBatches, aBatches>>

\* an upload step that deletes the temp file as soon as the upload resolved
OpenAI_filesCreateResolved_ThenUnlink(p) ==
  /\ cPc[p] = "await_filesCreate"
  /\ cJsonlFile[p] \in DOMAIN fs
  /\ oFiles' = Append(oFiles, [file |-> fs[cJsonlFile[p]], purpose |-> "batch"])
  /\ cFileId' = [cFileId EXCEPT ![p] = FileIdName(Len(oFiles) + 1)]
  /\ cPc' = [cPc EXCEPT ![p] = "await_batchesCreate"]
  /\ cVendorCalls' = [cVendorCalls EXCEPT ![p] = Append(@, "batches.create")]
  /\ fs' = Unlink(fs, cJsonlFile[p])
  /\ UNCHANGED <<clock, cProvider, cRequests, cJsonlFile, cWrote, cResult,
                 oBatches, aBatches>>

\* part_003 68-78: the read stream has read the file as it is now and the
\* upload resolved; await batches.create
OpenAI_filesCreateResolved(p) ==
  /\ cPc[p] = "await_filesCreate"
  /\ cJsonlFile[p] \in DOMAIN fs
  /\ oFiles' = Append(oFiles, [file |-> fs[cJsonlFile[p]], purpose |-> "batch"])
  /\ cFileId' = [cFileId EXCEPT ![p] = FileIdName(Len(oFiles) + 1)]
  /\ cPc' = [cPc EXCEPT ![p] = "await_batchesCreate"]
  /\ createUnchanged(p)
  /\ cVendorCalls' = [cVendorCalls EXCEPT ![p] = Append(@, "batches.create")]
  /\ UNCHANGED <<fs, cJsonlFile, cWrote, cResult, oBatches, aBatches>>

\* part_003 68-71, 84-89: the upload failed: the vendor refused it, or the
\* read stream found no file
OpenAI_filesCreateRejected(p) ==
  /\ cPc[p] = "await_filesCreate"
  /\ cResult' = [cResult EXCEPT ![p] =
       IF cJsonlFile[p] \in DOMAIN fs
         THEN CreationFailed("API error")
         ELSE CreationFailed("ENOENT: no such file or directory")]
  /\ cPc' = [cPc EXCEPT ![p] = "rejected"]
  /\ createUnchanged(p)
  /\ UNCHANGED <<cVendorCalls, fs, cJsonlFile, cWrote, cFileId, oFiles, oBatches, aBatches>>

\* part_003 74-81: the batch is registered; await unlink
OpenAI_batchesCreateResolved(p) ==
  /\ cPc[p] = "await_batchesCreate"
  /\ oBatches' = Append(oBatches,
       [id |-> BatchIdName(Len(oBatches) + 1),
        input_file_id |-> cFileId[p],
        endpoint |-> "/v1/chat/completions",
        completion_window |-> "24h"])
  /\ cResult' = [cResult EXCEPT ![p] = [batch |-> BatchIdName(Len(oBatches) + 1)]]
  /\ cPc' = [cPc EXCEPT ![p] = "await_unlink"]
  /\ createUnchanged(p)
  /\ UNCHANGED <<cVendorCalls, fs, cJsonlFile, cWrote, cFileId, oFiles, aBatches>>

\* part_003 74-78, 84-89: the registration failed
OpenAI_batchesCreateRejected(p) ==
  /\ cPc[p] = "await_batchesCreate"
  /\ cResult' = [cResult EXCEPT ![p] = CreationFailed("API error")]
  /\ cPc' = [cPc EXCEPT ![p] = "rejected"]
  /\ createUnchanged(p)
  /\ UNCHANGED <<cVendorCalls, fs, cJsonlFile, cWrote, cFileId, oFiles, oBatches, aBatches>>

\* part_003 81-83: the file is deleted; return batch.id
OpenAI_unlinkResolved(p) ==
  /\ cPc[p] = "await_unlink"
  /\ cJsonlFile[p] \in DOMAIN fs
  /\ fs' = Unlink(fs, cJsonlFile[p])
  /\ cResult' = [cResult EXCEPT ![p] = [batchId |-> cResult[p].batch]]
  /\ cPc' = [cPc EXCEPT ![p] = "resolved"]
  /\ createUnchanged(p)
  /\ UNCHANGED <<cVendorCalls, cJsonlFile, cWrote, cFileId, oFiles, oBatches, aBatches>>

\* part_003 81, 84-89: unlink found no file
OpenAI_unlinkRejected(p) ==
  /\ cPc[p] = "await_unlink"
  /\ cJsonlFile[p] \notin DOMAIN fs
  /\ cResult' = [cResult EXCEPT ![p] =
       CreationFailed("ENOENT: no such file or directory")]
  /\ cPc' = [cPc EXCEPT ![p] = "rejected"]
  /\ createUnchanged(p)
  /\ UNCHANGED <<cVendorCalls, fs, cJsonlFile, cWrote, cFileId, oFiles, oBatches, aBatches>>

\* anthropic.ts 27-67: the call, up to its await of batches.create; the
\* vendor holds the payload from here on
Anthropic_createBatch(p, requests) ==
  /\ cPc[p] = "idle"
  /\ cProvider' = [cProvider EXCEPT ![p] = "anthropic"]
  /\ cRequests' = [cRequests EXCEPT ![p] = requests]
  /\ cPc' = [cPc EXCEPT ![p] = "await_messagesBatchesCreate"]
  /\ cVendorCalls' = [cVendorCalls EXCEPT ![p] = Append(@, "messages.batches.create")]
  /\ UNCHANGED <<clock, fs, cJsonlFile, cWrote, cFileId, cResult, oFiles,
                 oBatches, aBatches>>

\* anthropic.ts 35-69: the vendor registered the batch; return batch.id
Anthropic_batchesCreateResolved(p) ==
  /\ cPc[p] = "await_messagesBatchesCreate"
  /\ aBatches' = Append(aBatches,
       [id |-> BatchIdName(Len(aBatches) + 1),
        requests |-> AnthropicBatchRequests(cRequests[p], OutputSchema)])
  /\ cResult' = [cResult EXCEPT ![p] = [batchId |-> BatchIdName(Len(aBatches) + 1)]]
  /\ cPc' = [cPc EXCEPT ![p] = "resolved"]
  /\ createUnchanged(p)
  /\ UNCHANGED <<cVendorCalls, fs, cJsonlFile, cWrote, cFileId, oFiles, oBatches>>

\* anthropic.ts 35, 70-75: the vendor refused the batch
Anthropic_batchesCreateRejected(p) ==
  /\ cPc[p] = "await_messagesBatchesCreate"
  /\ cResult' = [cResult EXCEPT ![p] = CreationFailed("API error")]
  /\ cPc' = [cPc EXCEPT ![p] = "rejected"]
  /\ createUnchanged(p)
  /\ UNCHANGED <<cVendorCalls, fs, cJsonlFile, cWrote, cFileId, oFiles, oBatches, aBatches>>

\* time passes
Tick ==
  /\ clock < MaxClock
  /\ clock' = clock + 1
  /\ UNCHANGED <<cVendorCalls, fs, cPc, cProvider, cRequests, cJsonlFile, cWrote, cFileId,
                 cResult, oFiles, oBatches, aBatches>>

NextCreate ==
  \/ \E p \in Calls, rs \in RequestLists :
       OpenAI_createBatch(p, rs) /\ UNCHANGED notCreate
  \/ \E p \in Calls : OpenAI_writeFileResolved(p) /\ UNCHANGED notCreate
  \/ \E p \in Calls : OpenAI_writeFileRejected(p) /\ UNCHANGED notCreate
  \/ \E p \in Calls : OpenAI_filesCreateResolved(p) /\ UNCHANGED notCreate
  \/ \E p \in Calls : OpenAI_filesCreateRejected(p) /\ UNCHANGED notCreate
  \/ \E p \in Calls : OpenAI_batchesCreateResolved(p) /\ UNCHANGED notCreate
  \/ \E p \in Calls : OpenAI_batchesCreateRejected(p) /\ UNCHANGED notCreate
  \/ \E p \in Calls : OpenAI_unlinkResolved(p) /\ UNCHANGED notCreate
  \/ \E p \in Calls : OpenAI_unlinkRejected(p) /\ UNCHANGED notCreate
  \/ \E p \in Calls, rs \in RequestLists :
       Anthropic_createBatch(p, rs) /\ UNCHANGED notCreate
  \/ \E p \in Calls : Anthropic_batchesCreateResolved(p) /\ UNCHANGED notCreate
  \/ \E p \in Calls : Anthropic_batchesCreateRejected(p) /\ UNCHANGED notCreate
  \/ Tick /\ UNCHANGED notCreate

SpecCreate == Init /\ [][NextCreate]_vars

(***************************************************************************)
(* The adapters' status queries, result retrieval and cancellation.        *)
(* The vendor's native status of a batch is whatever string it sends.      *)
(***************************************************************************)
VendorStatusStrings ==
  {"validating", "in_progress", "finalizing", "completed", "failed", "expired",
   "cancelling", "cancelled", "canceling", "ended", "unknown_status"}

\* a switch that forgets the cancelling states
OpenAIMapStatus_NoCancelling(status) ==
  CASE status = "validating" -> "validating"
    [] status = "in_progress" -> "in_progress"
    [] status = "completed" -> "completed"
    [] status = "failed" -> "failed"
    [] status = "expired" -> "expired"
    [] OTHER -> "failed"

\* part_003 185-204: OpenAILanguageModel.mapStatus
OpenAIMapStatus(status) ==
  CASE status = "validating" -> "validating"
    [] status = "in_progress" -> "in_progress"
    [] status = "completed" -> "completed"
    [] status = "failed" -> "failed"
    [] status = "expired" -> "expired"
    [] status = "cancelling" -> "cancelling"
    [] status = "cancelled" -> "cancelled"
    [] OTHER -> "failed"

\* anthropic.ts 189-200: AnthropicLanguageModel.mapStatus
AnthropicMapStatus(status) ==
  CASE status = "in_progress" -> "in_progress"
    [] status = "ended" -> "completed"
    [] status = "canceling" -> "cancelling"
    [] OTHER -> "failed"

\* a record with the fields of base and, on top, those of extra
WithFields(base, extra) ==
  [k \in DOMAIN base \cup DOMAIN extra |->
     IF k \in DOMAIN extra THEN extra[k] ELSE base[k]]

NoFields == [k \in {} |-> ""]

(***************************************************************************)
(* The OpenAI result file.  Its text is a sequence of characters, where    *)
(* one character stands for a line break, one for a blank, and each of the *)
(* others for the whole text of one JSON value (or of something that is    *)
(* not JSON) without line breaks.                                          *)
(***************************************************************************)
NL == "\n"
SP == " "

\* what JSON.parse makes of the record texts that are JSON
OpenAIRecordJson ==
  [ok0 |-> [custom_id |-> "request-0",
            response |-> [body |-> [choices |-> <<[message |-> [content |-> "{positive}"]]>>,
                                    usage |-> [prompt_tokens |-> 100,
                                               completion_tokens |-> 50,
                                               total_tokens |-> 150]]]],
   ok1 |-> [custom_id |-> "request-1",
            response |-> [body |-> [choices |-> <<[message |-> [content |-> "{negative}"]]>>]]],
   err0 |-> [custom_id |-> "request-0",
             error |-> [code |-> "rate_limit_exceeded", message |-> "Rate limit exceeded"]],
   badc1 |-> [custom_id |-> "request-1",
              response |-> [body |-> [choices |-> <<[message |-> [content |-> "not json"]]>>]]]]

\* the text of a truncated record: not JSON
Garbage == "garbage"

TextChars == {NL, SP, Garbage} \cup DOMAIN OpenAIRecordJson

\* what JSON.parse makes of the message contents that are JSON
ContentJson ==
  [x \in {"{positive}", "{negative}"} |->
     IF x = "{positive}" THEN [sentiment |-> "positive"] ELSE [sentiment |-> "negative"]]

RECURSIVE SplitFrom(_, _, _, _)
SplitFrom(text, i, line, lines) ==
  IF i > Len(text) THEN Append(lines, line)
  ELSE IF text[i] = NL THEN SplitFrom(text, i + 1, <<>>, Append(lines, line))
  ELSE SplitFrom(text, i + 1, Append(line, text[i]), lines)

\* String.prototype.split('\n'), part_003 139
Split(text) == SplitFrom(text, 1, <<>>, <<>>)

RECURSIVE TrimStart(_)
TrimStart(line) ==
  IF line # <<>> /\ Head(line) \in {SP, NL} THEN TrimStart(Tail(line)) ELSE line

RECURSIVE TrimEnd(_)
TrimEnd(line) ==
  IF line # <<>> /\ line[Len(line)] \in {SP, NL}
    THEN TrimEnd(SubSeq(line, 1, Len(line) - 1))
    ELSE line

\* String.prototype.trim
Trim(line) == TrimEnd(TrimStart(line))

\* no filter at all
FilterTrimmed_KeepAll(lines) == lines

\* Array.prototype.filter with the callback (line) => line.trim(): "" is falsy
RECURSIVE FilterTrimmed(_)
FilterTrimmed(lines) ==
  IF lines = <<>> THEN <<>>
  ELSE IF Trim(Head(lines)) # <<>> THEN <<Head(lines)>> \o FilterTrimmed(Tail(lines))
  ELSE FilterTrimmed(Tail(lines))

\* a filter that also drops the first line, as for a file with a header
NonBlankLines_SkipFirst(lines) == FilterTrimmed(Tail(lines))

\* part_003 139-140: .filter((line) => line.trim())
NonBlankLines(lines) == FilterTrimmed(lines)

\* JSON.parse(line), part_003 142: JSON allows blanks around the one value
LineIsJson(line) ==
  /\ Len(Trim(line)) = 1
  /\ Trim(line)[1] \in DOMAIN OpenAIRecordJson

LineJson(line) == OpenAIRecordJson[Trim(line)[1]]

\* result.response?.body?.choices?.[0]?.message?.content, part_003 146;
\* every record of the model that has a response has the whole path
HasContent(result) == "response" \in DOMAIN result

Content(result) == result.response.body.choices[1].message.content

\* JSON.parse of the content, part_003 145-147: undefined is not JSON
ContentIsJson(result) ==
  HasContent(result) /\ Content(result) \in DOMAIN ContentJson

\* whether the map callback of part_003 141-163 throws on this line
LineThrows(line) == ~LineIsJson(line) \/ ~ContentIsJson(LineJson(line))

\* part_003 148-155
OpenAIUsage(result) ==
  IF HasContent(result) /\ "usage" \in DOMAIN result.response.body
    THEN [usage |-> [promptTokens |-> result.response.body.usage.prompt_tokens,
                     completionTokens |-> result.response.body.usage.completion_tokens,
                     totalTokens |-> result.response.body.usage.total_tokens]]
    ELSE NoFields

\* part_003 156-161; every error of the model has a code and a message
OpenAIError(result) ==
  IF "error" \in DOMAIN result
    THEN [error |-> [code |-> result.error.code, message |-> result.error.message]]
    ELSE NoFields

\* part_003 141-163: the BatchResponse of one line that does not throw
OpenAIDecodeLine(line) ==
  LET result == LineJson(line)
  IN  WithFields(WithFields([customId |-> result.custom_id,
                             output |-> ContentJson[Content(result)]],
                            OpenAIUsage(result)),
                 OpenAIError(result))

\* part_003 138-163: the decoding of the whole text, when no line throws
OpenAIDecode(text) ==
  LET lines == NonBlankLines(Split(text))
  IN  [i \in 1..Len(lines) |-> OpenAIDecodeLine(lines[i])]

OpenAIDecodeThrows(text) ==
  LET lines == NonBlankLines(Split(text))
  IN  \E i \in 1..Len(lines) : LineThrows(lines[i])

(***************************************************************************)
(* The Anthropic result feed: MessageBatchIndividualResponse records.      *)
(***************************************************************************)
ToolUseBlock(response) ==
  [type |-> "tool_use", name |-> "format_response", input |-> [response |-> response]]

TextBlock == [type |-> "text", text |-> "Here you are"]

AnthropicUsage == [input_tokens |-> 100, output_tokens |-> 50]

AnthropicRecords ==
  {[custom_id |-> "request-0",
    result |-> [type |-> "succeeded",
                message |-> [content |-> <<TextBlock, ToolUseBlock([sentiment |-> "positive"])>>,
                             usage |-> AnthropicUsage]]],
   [custom_id |-> "request-1",
    result |-> [type |-> "succeeded",
                message |-> [content |-> <<TextBlock>>,
                             usage |-> [input_tokens |-> 20, output_tokens |-> 0]]]],
   [custom_id |-> "request-0",
    result |-> [type |-> "errored",
                error |-> [type |-> "api_error", message |-> "Rate limit exceeded"]]],
   [custom_id |-> "request-1", result |-> [type |-> "expired"]]}

\* anthropic.ts 137-140: content.find(tool_use named format_response)
IsFormatResponse(block) ==
  block.type = "tool_use" /\ block.name = "format_response"

FormatResponseBlocks(content) ==
  {i \in 1..Len(content) : IsFormatResponse(content[i])}

\* the least element of a non-empty set of numbers
Least(S) == CHOOSE i \in S : \A j \in S : i <= j

\* a decoder that returns the tool's whole input
AnthropicOutput_WholeInput(result) ==
  IF result.result.type = "succeeded"
       /\ FormatResponseBlocks(result.result.message.content) # {}
    THEN LET content == result.result.message.content
         IN  [output |-> content[Least(FormatResponseBlocks(content))].input]
    ELSE NoFields

\* anthropic.ts 134-144
AnthropicOutput(result) ==
  IF result.result.type = "succeeded"
       /\ FormatResponseBlocks(result.result.message.content) # {}
    THEN LET content == result.result.message.content
             toolUseBlock == content[Least(FormatResponseBlocks(content))]
         IN  IF "response" \in DOMAIN toolUseBlock.input
               THEN [output |-> toolUseBlock.input.response]
               ELSE NoFields
    ELSE NoFields

\* a usage whose total counts the prompt tokens only
AnthropicResponseUsage_PromptOnly(result) ==
  IF result.result.type = "succeeded"
    THEN [usage |-> [promptTokens |-> result.result.message.usage.input_tokens,
                     completionTokens |-> result.result.message.usage.output_tokens,
                     totalTokens |-> result.result.message.usage.input_tokens]]
    ELSE NoFields

\* anthropic.ts 149-158
AnthropicResponseUsage(result) ==
  IF result.result.type = "succeeded"
    THEN [usage |-> [promptTokens |-> result.result.message.usage.input_tokens,
                     completionTokens |-> result.result.message.usage.output_tokens,
                     totalTokens |-> result.result.message.usage.input_tokens
                                       + result.result.message.usage.output_tokens]]
    ELSE NoFields

\* anthropic.ts 159-165
AnthropicError(result) ==
  IF result.result.type # "succeeded"
    THEN [error |-> [code |-> result.result.type, message |-> "Request failed"]]
    ELSE NoFields

\* anthropic.ts 133-167: the BatchResponse of one record
AnthropicDecodeRecord(result) ==
  WithFields(WithFields(WithFields([customId |-> result.custom_id],
                                   AnthropicOutput(result)),
                        AnthropicResponseUsage(result)),
             AnthropicError(result))

\* anthropic.ts 133-167: responseArray.map(...)
AnthropicDecode(responseArray) ==
  [i \in 1..Len(responseArray) |-> AnthropicDecodeRecord(responseArray[i])]

(***************************************************************************)
(* What the vendors hold and reply.  Each vendor knows one batch, whose    *)
(* native status is vStatus; timestamps are small numbers.                 *)
(***************************************************************************)
KnownBatch == BatchIdName(1)

OpenAIOptionalFields ==
  {NoFields,
   [output_file_id |-> "file-out"],
   [request_counts |-> [total |-> 3, completed |-> 1, failed |-> 1]],
   [request_counts |-> [total |-> 2, completed |-> 2, failed |-> 0],
    completed_at |-> 2, expires_at |-> 3, output_file_id |-> "file-out"]}

\* the records batches.retrieve may resolve with (read at part_003 94-110, 125-127)
OpenAIVendorBatches(id, status) ==
  {WithFields([id |-> id, status |-> status, created_at |-> 1], extra)
     : extra \in OpenAIOptionalFields}

\* the request_counts a vendor batch may carry: every tuple of small counts
AnthropicCounts ==
  [processing : 0..MaxCount, succeeded : 0..MaxCount, errored : 0..MaxCount,
   canceled : 0..MaxCount, expired : 0..MaxCount]

\* the records messages.batches.retrieve may resolve with (read at anthropic.ts 80-95)
AnthropicVendorBatches(id, status) ==
  {WithFields([id |-> id, processing_status |-> status, request_counts |-> counts,
               created_at |-> "1970-01-01T00:00:01Z",
               expires_at |-> "1970-01-02T00:00:01Z"], extra)
     : counts \in AnthropicCounts,
       extra \in {NoFields, [ended_at |-> "1970-01-01T00:01:01Z"]}}

\* new Date(isoString).getTime()
IsoToMs(iso) ==
  CASE iso = "1970-01-01T00:00:01Z" -> 1000
    [] iso = "1970-01-01T00:01:01Z" -> 61000
    [] iso = "1970-01-02T00:00:01Z" -> 86401000

\* part_003 100-102: batch.request_counts?.<field> ?? 0
CountOrZero(batch, field) ==
  IF "request_counts" \in DOMAIN batch THEN batch.request_counts[field] ELSE 0

\* a getBatch that answers with the status it saw when the batch was new
OpenAIBatch_FirstSeen(batch) ==
  [id |-> batch.id,
   status |-> "in_progress",
   requestCounts |-> [total |-> 0, completed |-> 0, failed |-> 0],
   createdAt |-> batch.created_at * 1000]

\* part_003 96-111: the Batch getBatch returns
OpenAIBatch(batch) ==
  WithFields(
    WithFields([id |-> batch.id,
                status |-> OpenAIMapStatus(batch.status),
                requestCounts |-> [total |-> CountOrZero(batch, "total"),
                                   completed |-> CountOrZero(batch, "completed"),
                                   failed |-> CountOrZero(batch, "failed")],
                createdAt |-> batch.created_at * 1000],
               IF "completed_at" \in DOMAIN batch
                 THEN [completedAt |-> batch.completed_at * 1000] ELSE NoFields),
    IF "expires_at" \in DOMAIN batch
      THEN [expiresAt |-> batch.expires_at * 1000] ELSE NoFields)

\* a sum that leaves the expired requests out
calculateTotal_NoExpired(counts) ==
  counts.processing + counts.succeeded + counts.errored + counts.canceled

\* anthropic.ts 106-120
calculateTotal(counts) ==
  counts.processing + counts.succeeded + counts.errored + counts.canceled
    + counts.expired

\* a getBatch that reports an ended batch without successes as failed
AnthropicBatch_ByCounts(batch) ==
  [id |-> batch.id,
   status |-> IF batch.processing_status = "ended" /\ batch.request_counts.succeeded = 0
                THEN "failed"
                ELSE AnthropicMapStatus(batch.processing_status),
   requestCounts |-> [total |-> calculateTotal(batch.request_counts),
                      completed |-> batch.request_counts.succeeded,
                      failed |-> batch.request_counts.errored,
                      processing |-> batch.request_counts.processing,
                      cancelled |-> batch.request_counts.canceled,
                      expired |-> batch.request_counts.expired],
   createdAt |-> IsoToMs(batch.created_at)]

\* anthropic.ts 82-96: the Batch getBatch returns
AnthropicBatch(batch) ==
  WithFields(
    WithFields([id |-> batch.id,
                status |-> AnthropicMapStatus(batch.processing_status),
                requestCounts |-> [total |-> calculateTotal(batch.request_counts),
                                   completed |-> batch.request_counts.succeeded,
                                   failed |-> batch.request_counts.errored,
                                   processing |-> batch.request_counts.processing,
                                   cancelled |-> batch.request_counts.canceled,
                                   expired |-> batch.request_counts.expired],
                createdAt |-> IsoToMs(batch.created_at)],
               IF "ended_at" \in DOMAIN batch
                 THEN [completedAt |-> IsoToMs(batch.ended_at)] ELSE NoFields),
    IF "expires_at" \in DOMAIN batch
      THEN [expiresAt |-> IsoToMs(batch.expires_at)] ELSE NoFields)

VendorCall(endpoint, arg) == [endpoint |-> endpoint, arg |-> arg]

\* the errors a vendor call may reject with
VendorErrors == {[message |-> "API error"], [message |-> "Cannot cancel completed batch"]}

\* the catch blocks of the adapters (part_003 112-118, 164-170, 176-182;
\* anthropic.ts 97-103, 168-174, 180-186): every error caught is an Error
\* a catch block that hides the vendor's message
Rethrow_UnknownError(error, code, batchId) ==
  BatchErrorFor("Unknown error", code, batchId)

Rethrow(error, code, batchId) == BatchErrorFor(error.message, code, batchId)

\* catch blocks that all throw the one code
FailureCode_OneCode(name) == "batch_retrieval_failed"

FailureCode(name) ==
  CASE name = "getBatch" -> "batch_retrieval_failed"
    [] name = "getBatchResults" -> "results_retrieval_failed"
    [] name = "cancelBatch" -> "batch_cancellation_failed"

Texts == SeqsUpTo(TextChars, MaxTextLen)

\* a call starts: its first vendor call is made
StartCall(provider, name, batchId, endpoint) ==
  /\ opPc = "idle"
  /\ opProvider' = provider
  /\ opName' = name
  /\ opBatchId' = batchId
  /\ opVendorCalls' = <<VendorCall(endpoint, batchId)>>
  /\ opRaw' = <<>>
  /\ opResponseArray' = <<>>
  /\ opCaught' = None
  /\ opBatch' = None
  /\ opResult' = None
  /\ UNCHANGED vStatus

Resolve(value) ==
  /\ opPc' = "resolved"
  /\ opResult' = value
  /\ opCaught' = opCaught

\* catch (error) { throw new BatchError(error.message, code, batchId) }
Caught(error, code) ==
  /\ opPc' = "rejected"
  /\ opCaught' = error
  /\ opResult' = Rethrow(error, code, opBatchId)

\* a catch block that makes the failed call once more before it gives up
FirstCallRejected_Retry(provider, name, pc, error) ==
  /\ opPc = pc
  /\ opProvider = provider
  /\ opName = name
  /\ IF Len(opVendorCalls) < 2
       THEN /\ opVendorCalls' = Append(opVendorCalls, opVendorCalls[1])
            /\ UNCHANGED <<opPc, opCaught, opResult>>
       ELSE /\ Caught(error, FailureCode(name))
            /\ UNCHANGED opVendorCalls
  /\ UNCHANGED <<vStatus, opProvider, opBatch, opName, opBatchId, opRaw,
                 opResponseArray>>

\* the first vendor call of a method rejects; the catch block rethrows
FirstCallRejected(provider, name, pc, error) ==
  /\ opPc = pc
  /\ opProvider = provider
  /\ opName = name
  /\ Caught(error, FailureCode(name))
  /\ UNCHANGED <<vStatus, opProvider, opBatch, opName, opBatchId, opVendorCalls,
                 opRaw, opResponseArray>>

\* part_003 92-94
OpenAI_getBatch(batchId) ==
  /\ StartCall("openai", "getBatch", batchId, "batches.retrieve")
  /\ opPc' = "await_retrieve"

\* part_003 94-111
OpenAI_getBatch_retrieveResolved(batch) ==
  /\ opPc = "await_retrieve"
  /\ opBatch' = batch
  /\ opProvider = "openai"
  /\ opName = "getBatch"
  /\ opBatchId = KnownBatch
  /\ batch \in OpenAIVendorBatches(opBatchId, vStatus)
  /\ Resolve(OpenAIBatch(batch))
  /\ UNCHANGED <<vStatus, opProvider, opName, opBatchId, opVendorCalls, opRaw,
                 opResponseArray>>

\* part_003 94, 112-118
OpenAI_getBatch_retrieveRejected(error) ==
  FirstCallRejected("openai", "getBatch", "await_retrieve", error)

\* part_003 121-125
OpenAI_getBatchResults(batchId) ==
  /\ StartCall("openai", "getBatchResults", batchId, "batches.retrieve")
  /\ opPc' = "await_retrieve"

\* part_003 125-135, 164-170: the throw of 128-132 happens inside the try
OpenAI_getBatchResults_retrieveResolved(batch) ==
  /\ opPc = "await_retrieve"
  /\ opBatch' = batch
  /\ opProvider = "openai"
  /\ opName = "getBatchResults"
  /\ opBatchId = KnownBatch
  /\ batch \in OpenAIVendorBatches(opBatchId, vStatus)
  /\ IF "output_file_id" \notin DOMAIN batch
       THEN /\ Caught(BatchErrorFor("Batch results not yet available",
                                     "results_not_ready", opBatchId),
                       "results_retrieval_failed")
            /\ opVendorCalls' = opVendorCalls
       ELSE /\ opVendorCalls' =
                 Append(opVendorCalls, VendorCall("files.content", batch.output_file_id))
            /\ opPc' = "await_filesContent"
            /\ opResult' = opResult
            /\ opCaught' = opCaught
  /\ UNCHANGED <<vStatus, opProvider, opName, opBatchId, opRaw,
                 opResponseArray>>

\* part_003 125, 164-170
OpenAI_getBatchResults_retrieveRejected(error) ==
  FirstCallRejected("openai", "getBatchResults", "await_retrieve", error)

\* part_003 135-136: the content resolved; await fileContent.text()
OpenAI_filesContentResolved ==
  /\ opPc = "await_filesContent"
  /\ opPc' = "await_text"
  /\ UNCHANGED <<vStatus, opProvider, opBatch, opName, opBatchId, opVendorCalls,
                 opRaw, opResponseArray, opCaught, opResult>>

\* part_003 135-136, 164-170: the download failed
OpenAI_filesContentRejected(error) ==
  /\ opPc \in {"await_filesContent", "await_text"}
  /\ Caught(error, "results_retrieval_failed")
  /\ UNCHANGED <<vStatus, opProvider, opBatch, opName, opBatchId, opVendorCalls,
                 opRaw, opResponseArray>>

\* a decoding that leaves out the lines that do not parse
OpenAI_textResolved_Partial(text) ==
  /\ opPc = "await_text"
  /\ opRaw' = text
  /\ LET KeepLine(line) == ~LineThrows(line)
         lines == SelectSeq(NonBlankLines(Split(text)), KeepLine)
     IN  Resolve([i \in 1..Len(lines) |-> OpenAIDecodeLine(lines[i])])
  /\ UNCHANGED <<vStatus, opProvider, opBatch, opName, opBatchId, opVendorCalls,
                 opResponseArray>>

\* part_003 136-170: the text arrived; split, filter, decode
OpenAI_textResolved(text) ==
  /\ opPc = "await_text"
  /\ opRaw' = text
  /\ IF OpenAIDecodeThrows(text)
       THEN Caught([message |-> "Unexpected token in JSON"],
                   "results_retrieval_failed")
       ELSE Resolve(OpenAIDecode(text))
  /\ UNCHANGED <<vStatus, opProvider, opBatch, opName, opBatchId, opVendorCalls,
                 opResponseArray>>

\* part_003 173-175
OpenAI_cancelBatch(batchId) ==
  /\ StartCall("openai", "cancelBatch", batchId, "batches.cancel")
  /\ opPc' = "await_cancel"

\* part_003 175: the vendor accepted; the batch is being cancelled
OpenAI_cancelResolved ==
  /\ opPc = "await_cancel"
  /\ opProvider = "openai"
  /\ opBatchId = KnownBatch
  /\ vStatus' = "cancelling"
  /\ Resolve([void |-> TRUE])
  /\ UNCHANGED <<opProvider, opBatch, opName, opBatchId, opVendorCalls, opRaw,
                 opResponseArray>>

\* part_003 175-182
OpenAI_cancelRejected(error) ==
  FirstCallRejected("openai", "cancelBatch", "await_cancel", error)

\* anthropic.ts 78-80
Anthropic_getBatch(batchId) ==
  /\ StartCall("anthropic", "getBatch", batchId, "messages.batches.retrieve")
  /\ opPc' = "await_retrieve"

\* anthropic.ts 80-96
Anthropic_getBatch_retrieveResolved(batch) ==
  /\ opPc = "await_retrieve"
  /\ opBatch' = batch
  /\ opProvider = "anthropic"
  /\ opName = "getBatch"
  /\ opBatchId = KnownBatch
  /\ batch.id = opBatchId
  /\ batch.processing_status = vStatus
  /\ Resolve(AnthropicBatch(batch))
  /\ UNCHANGED <<vStatus, opProvider, opName, opBatchId, opVendorCalls, opRaw,
                 opResponseArray>>

\* anthropic.ts 80, 97-103
Anthropic_getBatch_retrieveRejected(error) ==
  FirstCallRejected("anthropic", "getBatch", "await_retrieve", error)

\* anthropic.ts 122-126: the results feed is asked for at once
Anthropic_getBatchResults(batchId) ==
  /\ StartCall("anthropic", "getBatchResults", batchId, "messages.batches.results")
  /\ opPc' = "await_results"

\* anthropic.ts 126-129: the feed is there; iterate it
Anthropic_resultsResolved ==
  /\ opPc = "await_results"
  /\ opBatchId = KnownBatch
  /\ opPc' = "iterating"
  /\ UNCHANGED <<vStatus, opProvider, opBatch, opName, opBatchId, opVendorCalls,
                 opRaw, opResponseArray, opCaught, opResult>>

\* anthropic.ts 126, 168-174
Anthropic_resultsRejected(error) ==
  FirstCallRejected("anthropic", "getBatchResults", "await_results", error)

\* anthropic.ts 129-131: the feed delivers one more record
Anthropic_feedNext(record) ==
  /\ opPc = "iterating"
  /\ Len(opRaw) < MaxFeed
  /\ opRaw' = Append(opRaw, record)
  /\ opResponseArray' = Append(opResponseArray, record)
  /\ UNCHANGED <<vStatus, opPc, opProvider, opBatch, opName, opBatchId,
                 opVendorCalls, opCaught, opResult>>

\* anthropic.ts 129-167: the feed is exhausted; decode what was collected
Anthropic_feedDone ==
  /\ opPc = "iterating"
  /\ Resolve(AnthropicDecode(opResponseArray))
  /\ UNCHANGED <<vStatus, opProvider, opBatch, opName, opBatchId, opVendorCalls,
                 opRaw, opResponseArray>>

\* a catch block that answers a failing feed with the records received
Anthropic_feedRejected_ReturnsReceived(error) ==
  /\ opPc = "iterating"
  /\ opCaught' = error
  /\ opResult' = AnthropicDecode(opResponseArray)
  /\ opPc' = "resolved"
  /\ UNCHANGED <<vStatus, opProvider, opBatch, opName, opBatchId, opVendorCalls,
                 opRaw, opResponseArray>>

\* anthropic.ts 129, 168-174: the feed fails part-way
Anthropic_feedRejected(error) ==
  /\ opPc = "iterating"
  /\ Caught(error, "results_retrieval_failed")
  /\ UNCHANGED <<vStatus, opProvider, opBatch, opName, opBatchId, opVendorCalls,
                 opRaw, opResponseArray>>

\* anthropic.ts 177-179
Anthropic_cancelBatch(batchId) ==
  /\ StartCall("anthropic", "cancelBatch", batchId, "messages.batches.cancel")
  /\ opPc' = "await_cancel"

\* anthropic.ts 179: the vendor accepted; the batch is being cancelled
Anthropic_cancelResolved ==
  /\ opPc = "await_cancel"
  /\ opProvider = "anthropic"
  /\ opBatchId = KnownBatch
  /\ vStatus' = "canceling"
  /\ Resolve([void |-> TRUE])
  /\ UNCHANGED <<opProvider, opBatch, opName, opBatchId, opVendorCalls, opRaw,
                 opResponseArray>>

\* anthropic.ts 179-186
Anthropic_cancelRejected(error) ==
  FirstCallRejected("anthropic", "cancelBatch", "await_cancel", error)

\* the provider moves its batch to another status.  A call reads the status
\* only in the reply to its first vendor call, so the changes after that
\* reply are left to the time after the call.
VendorChanges(status) ==
  /\ opPc \in {"idle", "await_retrieve", "await_results", "await_cancel"}
  /\ vStatus' = status
  /\ vStatus # status
  /\ UNCHANGED <<opPc, opProvider, opBatch, opName, opBatchId, opVendorCalls,
                 opRaw, opResponseArray, opCaught, opResult>>

\* the caller takes the settled promise; the next call may start
AdapterSettled ==
  /\ opPc \in {"resolved", "rejected"}
  /\ opPc' = "idle"
  /\ opProvider' = "openai"
  /\ opName' = NoName
  /\ opBatchId' = NoName
  /\ opVendorCalls' = <<>>
  /\ opRaw' = <<>>
  /\ opResponseArray' = <<>>
  /\ opCaught' = None
  /\ opBatch' = None
  /\ opResult' = None
  /\ UNCHANGED vStatus

NextAdapter ==
  \/ \E b \in BatchIds : OpenAI_getBatch(b) /\ UNCHANGED notAdapter
  \/ /\ opPc = "await_retrieve"
     /\ \E batch \in OpenAIVendorBatches(KnownBatch, vStatus) :
          OpenAI_getBatch_retrieveResolved(batch)
     /\ UNCHANGED notAdapter
  \/ \E e \in VendorErrors : OpenAI_getBatch_retrieveRejected(e) /\ UNCHANGED notAdapter
  \/ \E b \in BatchIds : OpenAI_getBatchResults(b) /\ UNCHANGED notAdapter
  \/ /\ opPc = "await_retrieve"
     /\ \E batch \in OpenAIVendorBatches(KnownBatch, vStatus) :
          OpenAI_getBatchResults_retrieveResolved(batch)
     /\ UNCHANGED notAdapter
  \/ \E e \in VendorErrors :
       OpenAI_getBatchResults_retrieveRejected(e) /\ UNCHANGED notAdapter
  \/ OpenAI_filesContentResolved /\ UNCHANGED notAdapter
  \/ \E e \in VendorErrors : OpenAI_filesContentRejected(e) /\ UNCHANGED notAdapter
  \/ /\ opPc = "await_text"
     /\ \E text \in Texts : OpenAI_textResolved(text)
     /\ UNCHANGED notAdapter
  \/ \E b \in BatchIds : OpenAI_cancelBatch(b) /\ UNCHANGED notAdapter
  \/ OpenAI_cancelResolved /\ UNCHANGED notAdapter
  \/ \E e \in VendorErrors : OpenAI_cancelRejected(e) /\ UNCHANGED notAdapter
  \/ \E b \in BatchIds : Anthropic_getBatch(b) /\ UNCHANGED notAdapter
  \/ /\ opPc = "await_retrieve" /\ opProvider = "anthropic"
     /\ \E batch \in AnthropicVendorBatches(KnownBatch, vStatus) :
          Anthropic_getBatch_retrieveResolved(batch)
     /\ UNCHANGED notAdapter
  \/ \E e \in VendorErrors : Anthropic_getBatch_retrieveRejected(e) /\ UNCHANGED notAdapter
  \/ \E b \in BatchIds : Anthropic_getBatchResults(b) /\ UNCHANGED notAdapter
  \/ Anthropic_resultsResolved /\ UNCHANGED notAdapter
  \/ \E e \in VendorErrors : Anthropic_resultsRejected(e) /\ UNCHANGED notAdapter
  \/ \E r \in AnthropicRecords : Anthropic_feedNext(r) /\ UNCHANGED notAdapter
  \/ Anthropic_feedDone /\ UNCHANGED notAdapter
  \/ \E e \in VendorErrors : Anthropic_feedRejected(e) /\ UNCHANGED notAdapter
  \/ \E b \in BatchIds : Anthropic_cancelBatch(b) /\ UNCHANGED notAdapter
  \/ Anthropic_cancelResolved /\ UNCHANGED notAdapter
  \/ \E e \in VendorErrors : Anthropic_cancelRejected(e) /\ UNCHANGED notAdapter
  \/ \E st \in VendorStatusStrings : VendorChanges(st) /\ UNCHANGED notAdapter
  \/ AdapterSettled /\ UNCHANGED notAdapter

SpecAdapter == Init /\ [][NextAdapter]_vars

(***************************************************************************)
(* createObjectBatch, src/src/index.ts 62-69, on the abstract model.       *)
(***************************************************************************)
\* the schemas a caller may pass
OutputSchemas == {OutputSchema, "other schema"}

\* what model.createBatch may reject with
ModelCreateErrors ==
  {BatchError("API error", "batch_creation_failed"),
   BatchError("ENOENT: no such file or directory", "batch_creation_failed")}

ModelCreateCall(requests, outputSchema) ==
  [op |-> "createBatch", requests |-> requests, outputSchema |-> outputSchema]

\* an object that carries the identifier under another name
CreateObjectBatchResponse_Id(batchId) == [id |-> batchId]

\* index.ts 68: return { batchId }
CreateObjectBatchResponse(batchId) == [batchId |-> batchId]

\* index.ts 62-67: const batchId = await model.createBatch(requests, outputSchema)
createObjectBatch(requests, outputSchema) ==
  /\ fPc = "idle"
  /\ fPc' = "await_createBatch"
  /\ fParams' = [requests |-> requests, outputSchema |-> outputSchema]
  /\ fCalls' = <<ModelCreateCall(requests, outputSchema)>>
  /\ fReplies' = <<>>
  /\ fBatchId' = None
  /\ fBatch' = None
  /\ fReturn' = None
  /\ fError' = None

\* index.ts 67-68: createBatch resolved; return { batchId }
createObjectBatch_createBatchResolved(batchId) ==
  /\ fPc = "await_createBatch"
  /\ fReplies' = Append(fReplies, ModelReply("resolved", batchId))
  /\ fReturn' = CreateObjectBatchResponse(batchId)
  /\ fPc' = "resolved"
  /\ UNCHANGED <<fBatchId, fParams, fBatch, fCalls, fError>>

\* index.ts 67: createBatch rejected; the async function rejects with the same error
createObjectBatch_createBatchRejected(error) ==
  /\ fPc = "await_createBatch"
  /\ fReplies' = Append(fReplies, ModelReply("rejected", error))
  /\ fError' = error
  /\ fPc' = "rejected"
  /\ UNCHANGED <<fBatchId, fParams, fBatch, fCalls, fReturn>>

Next ==
  \/ \E rs \in RequestLists, schema \in OutputSchemas :
       createObjectBatch(rs, schema) /\ UNCHANGED notFacade
  \/ \E b \in BatchIds :
       createObjectBatch_createBatchResolved(b) /\ UNCHANGED notFacade
  \/ \E e \in ModelCreateErrors :
       createObjectBatch_createBatchRejected(e) /\ UNCHANGED notFacade
  \/ \E b \in BatchIds : getObjectBatch(b) /\ UNCHANGED notFacade
  \/ \E batch \in ModelBatches :
       getObjectBatch_getBatchResolved(batch) /\ UNCHANGED notFacade
  \/ \E e \in ModelErrors :
       getObjectBatch_getBatchRejected(e) /\ UNCHANGED notFacade
  \/ \E rs \in ModelResultArrays :
       getObjectBatch_getBatchResultsResolved(rs) /\ UNCHANGED notFacade
  \/ \E e \in ModelErrors :
       getObjectBatch_getBatchResultsRejected(e) /\ UNCHANGED notFacade
  \/ FacadeSettled /\ UNCHANGED notFacade

Spec == Init /\ [][Next]_vars

(***************************************************************************)
(* The three components together.  They share no variable: the facade is   *)
(* handed an abstract model, and an adapter instance keeps nothing between *)
(* its calls (its only fields are the client and the model id), so what a  *)
(* component can reach does not depend on where the others stand.  NextAll *)
(* lets each component run from the initial state while the others stand   *)
(* still; a conjunction of properties of single components holds in every  *)
(* interleaving exactly when it holds here.                                *)
(***************************************************************************)
\* a component that has not moved yet
FacadeAtRest == fPc = "idle" /\ fCalls = <<>>

CreateAtRest == clock = 0 /\ \A p \in Calls : cPc[p] = "idle"

AdapterAtRest == opPc = "idle" /\ vStatus = "in_progress"

NextAll ==
  \/ /\ CreateAtRest /\ AdapterAtRest
     /\ \E rs \in RequestLists, schema \in OutputSchemas :
          createObjectBatch(rs, schema) /\ UNCHANGED notFacade
  \/ /\ CreateAtRest /\ AdapterAtRest
     /\ \E b \in BatchIds :
          createObjectBatch_createBatchResolved(b) /\ UNCHANGED notFacade
  \/ /\ CreateAtRest /\ AdapterAtRest
     /\ \E e \in ModelCreateErrors :
          createObjectBatch_createBatchRejected(e) /\ UNCHANGED notFacade
  \/ /\ CreateAtRest /\ AdapterAtRest
     /\ \E b \in BatchIds : getObjectBatch(b) /\ UNCHANGED notFacade
  \/ /\ CreateAtRest /\ AdapterAtRest
     /\ \E batch \in ModelBatches :
          getObjectBatch_getBatchResolved(batch) /\ UNCHANGED notFacade
  \/ /\ CreateAtRest /\ AdapterAtRest
     /\ \E e \in ModelErrors :
          getObjectBatch_getBatchRejected(e) /\ UNCHANGED notFacade
  \/ /\ CreateAtRest /\ AdapterAtRest
     /\ \E rs \in ModelResultArrays :
          getObjectBatch_getBatchResultsResolved(rs) /\ UNCHANGED notFacade
  \/ /\ CreateAtRest /\ AdapterAtRest
     /\ \E e \in ModelErrors :
          getObjectBatch_getBatchResultsRejected(e) /\ UNCHANGED notFacade
  \/ /\ CreateAtRest /\ AdapterAtRest
     /\ FacadeSettled /\ UNCHANGED notFacade
  \/ /\ FacadeAtRest /\ AdapterAtRest
     /\ \E p \in Calls, rs \in RequestLists :
          OpenAI_createBatch(p, rs) /\ UNCHANGED notCreate
  \/ /\ FacadeAtRest /\ AdapterAtRest
     /\ \E p \in Calls : OpenAI_writeFileResolved(p) /\ UNCHANGED notCreate
  \/ /\ FacadeAtRest /\ AdapterAtRest
     /\ \E p \in Calls : OpenAI_writeFileRejected(p) /\ UNCHANGED notCreate
  \/ /\ FacadeAtRest /\ AdapterAtRest
     /\ \E p \in Calls : OpenAI_filesCreateResolved(p) /\ UNCHANGED notCreate
  \/ /\ FacadeAtRest /\ AdapterAtRest
     /\ \E p \in Calls : OpenAI_filesCreateRejected(p) /\ UNCHANGED notCreate
  \/ /\ FacadeAtRest /\ AdapterAtRest
     /\ \E p \in Calls : OpenAI_batchesCreateResolved(p) /\ UNCHANGED notCreate
  \/ /\ FacadeAtRest /\ AdapterAtRest
     /\ \E p \in Calls : OpenAI_batchesCreateRejected(p) /\ UNCHANGED notCreate
  \/ /\ FacadeAtRest /\ AdapterAtRest
     /\ \E p \in Calls : OpenAI_unlinkResolved(p) /\ UNCHANGED notCreate
  \/ /\ FacadeAtRest /\ AdapterAtRest
     /\ \E p \in Calls : OpenAI_unlinkRejected(p) /\ UNCHANGED notCreate
  \/ /\ FacadeAtRest /\ AdapterAtRest
     /\ \E p \in Calls, rs \in RequestLists :
          Anthropic_createBatch(p, rs) /\ UNCHANGED notCreate
  \/ /\ FacadeAtRest /\ AdapterAtRest
     /\ \E p \in Calls : Anthropic_batchesCreateResolved(p) /\ UNCHANGED notCreate
  \/ /\ FacadeAtRest /\ AdapterAtRest
     /\ \E p \in Calls : Anthropic_batchesCreateRejected(p) /\ UNCHANGED notCreate
  \/ /\ FacadeAtRest /\ AdapterAtRest
     /\ Tick /\ UNCHANGED notCreate
  \/ /\ FacadeAtRest /\ CreateAtRest
     /\ \E b \in BatchIds : OpenAI_getBatch(b) /\ UNCHANGED notAdapter
  \/ /\ FacadeAtRest /\ CreateAtRest
     /\ opPc = "await_retrieve"
     /\ \E batch \in OpenAIVendorBatches(KnownBatch, vStatus) :
          OpenAI_getBatch_retrieveResolved(batch)
     /\ UNCHANGED notAdapter
  \/ /\ FacadeAtRest /\ CreateAtRest
     /\ \E e \in VendorErrors :
          OpenAI_getBatch_retrieveRejected(e) /\ UNCHANGED notAdapter
  \/ /\ FacadeAtRest /\ CreateAtRest
     /\ \E b \in BatchIds : OpenAI_getBatchResults(b) /\ UNCHANGED notAdapter
  \/ /\ FacadeAtRest /\ CreateAtRest
     /\ opPc = "await_retrieve"
     /\ \E batch \in OpenAIVendorBatches(KnownBatch, vStatus) :
          OpenAI_getBatchResults_retrieveResolved(batch)
     /\ UNCHANGED notAdapter
  \/ /\ FacadeAtRest /\ CreateAtRest
     /\ \E e \in VendorErrors :
          OpenAI_getBatchResults_retrieveRejected(e) /\ UNCHANGED notAdapter
  \/ /\ FacadeAtRest /\ CreateAtRest
     /\ OpenAI_filesContentResolved /\ UNCHANGED notAdapter
  \/ /\ FacadeAtRest /\ CreateAtRest
     /\ \E e \in VendorErrors : OpenAI_filesContentRejected(e) /\ UNCHANGED notAdapter
  \/ /\ FacadeAtRest /\ CreateAtRest
     /\ opPc = "await_text"
     /\ \E text \in Texts : OpenAI_textResolved(text)
     /\ UNCHANGED notAdapter
  \/ /\ FacadeAtRest /\ CreateAtRest
     /\ \E b \in BatchIds : OpenAI_cancelBatch(b) /\ UNCHANGED notAdapter
  \/ /\ FacadeAtRest /\ CreateAtRest
     /\ OpenAI_cancelResolved /\ UNCHANGED notAdapter
  \/ /\ FacadeAtRest /\ CreateAtRest
     /\ \E e \in VendorErrors : OpenAI_cancelRejected(e) /\ UNCHANGED notAdapter
  \/ /\ FacadeAtRest /\ CreateAtRest
     /\ \E b \in BatchIds : Anthropic_getBatch(b) /\ UNCHANGED notAdapter
  \/ /\ FacadeAtRest /\ CreateAtRest
     /\ opPc = "await_retrieve" /\ opProvider = "anthropic"
     /\ \E batch \in AnthropicVendorBatches(KnownBatch, vStatus) :
          Anthropic_getBatch_retrieveResolved(batch)
     /\ UNCHANGED notAdapter
  \/ /\ FacadeAtRest /\ CreateAtRest
     /\ \E e \in VendorErrors :
          Anthropic_getBatch_retrieveRejected(e) /\ UNCHANGED notAdapter
  \/ /\ FacadeAtRest /\ CreateAtRest
     /\ \E b \in BatchIds : Anthropic_getBatchResults(b) /\ UNCHANGED notAdapter
  \/ /\ FacadeAtRest /\ CreateAtRest
     /\ Anthropic_resultsResolved /\ UNCHANGED notAdapter
  \/ /\ FacadeAtRest /\ CreateAtRest
     /\ \E e \in VendorErrors : Anthropic_resultsRejected(e) /\ UNCHANGED notAdapter
  \/ /\ FacadeAtRest /\ CreateAtRest
     /\ \E r \in AnthropicRecords : Anthropic_feedNext(r) /\ UNCHANGED notAdapter
  \/ /\ FacadeAtRest /\ CreateAtRest
     /\ Anthropic_feedDone /\ UNCHANGED notAdapter
  \/ /\ FacadeAtRest /\ CreateAtRest
     /\ \E e \in VendorErrors : Anthropic_feedRejected(e) /\ UNCHANGED notAdapter
  \/ /\ FacadeAtRest /\ CreateAtRest
     /\ \E b \in BatchIds : Anthropic_cancelBatch(b) /\ UNCHANGED notAdapter
  \/ /\ FacadeAtRest /\ CreateAtRest
     /\ Anthropic_cancelResolved /\ UNCHANGED notAdapter
  \/ /\ FacadeAtRest /\ CreateAtRest
     /\ \E e \in VendorErrors : Anthropic_cancelRejected(e) /\ UNCHANGED notAdapter
  \/ /\ FacadeAtRest /\ CreateAtRest
     /\ \E st \in VendorStatusStrings : VendorChanges(st) /\ UNCHANGED notAdapter
  \/ /\ FacadeAtRest /\ CreateAtRest
     /\ AdapterSettled /\ UNCHANGED notAdapter

SpecAll == Init /\ [][NextAll]_vars

(***************************************************************************)
(* One adapter instance in use by two callers at once: one creates a       *)
(* batch while the other queries, fetches and cancels, every step of the   *)
(* one interleaved with every step of the other.  The inputs are drawn     *)
(* from small sets; the vendor moves its batch between the statuses of     *)
(* SessionStatuses on its own, and to cancelling (OpenAI) or canceling     *)
(* (Anthropic) only when a cancelBatch call got through.                   *)
(***************************************************************************)
Creator == 1

SessionRequestLists == {<<request>> : request \in Requests}

SessionStatuses == {"in_progress", "completed", "ended"}

SessionTexts == SeqsUpTo({NL, "ok0", "err0"}, 1)

SessionAnthropicBatches(id, status) ==
  {batch \in AnthropicVendorBatches(id, status) :
     \A field \in DOMAIN batch.request_counts :
       batch.request_counts[field] = batch.request_counts.processing}

SessionRecords ==
  {record \in AnthropicRecords : record.custom_id = "request-0"}

NextSession ==
  \/ \E rs \in SessionRequestLists :
       OpenAI_createBatch(Creator, rs) /\ UNCHANGED notCreate
  \/ OpenAI_writeFileResolved(Creator) /\ UNCHANGED notCreate
  \/ OpenAI_writeFileRejected(Creator) /\ UNCHANGED notCreate
  \/ OpenAI_filesCreateResolved(Creator) /\ UNCHANGED notCreate
  \/ OpenAI_filesCreateRejected(Creator) /\ UNCHANGED notCreate
  \/ OpenAI_batchesCreateResolved(Creator) /\ UNCHANGED notCreate
  \/ OpenAI_batchesCreateRejected(Creator) /\ UNCHANGED notCreate
  \/ OpenAI_unlinkResolved(Creator) /\ UNCHANGED notCreate
  \/ \E rs \in SessionRequestLists :
       Anthropic_createBatch(Creator, rs) /\ UNCHANGED notCreate
  \/ Anthropic_batchesCreateResolved(Creator) /\ UNCHANGED notCreate
  \/ Anthropic_batchesCreateRejected(Creator) /\ UNCHANGED notCreate
  \/ Tick /\ UNCHANGED notCreate
  \/ \E b \in BatchIds : OpenAI_getBatch(b) /\ UNCHANGED notAdapter
  \/ /\ opPc = "await_retrieve"
     /\ \E batch \in OpenAIVendorBatches(KnownBatch, vStatus) :
          OpenAI_getBatch_retrieveResolved(batch)
     /\ UNCHANGED notAdapter
  \/ \E e \in VendorErrors : OpenAI_getBatch_retrieveRejected(e) /\ UNCHANGED notAdapter
  \/ \E b \in BatchIds : OpenAI_getBatchResults(b) /\ UNCHANGED notAdapter
  \/ /\ opPc = "await_retrieve"
     /\ \E batch \in OpenAIVendorBatches(KnownBatch, vStatus) :
          OpenAI_getBatchResults_retrieveResolved(batch)
     /\ UNCHANGED notAdapter
  \/ \E e \in VendorErrors :
       OpenAI_getBatchResults_retrieveRejected(e) /\ UNCHANGED notAdapter
  \/ OpenAI_filesContentResolved /\ UNCHANGED notAdapter
  \/ \E e \in VendorErrors : OpenAI_filesContentRejected(e) /\ UNCHANGED notAdapter
  \/ /\ opPc = "await_text"
     /\ \E text \in SessionTexts : OpenAI_textResolved(text)
     /\ UNCHANGED notAdapter
  \/ \E b \in BatchIds : OpenAI_cancelBatch(b) /\ UNCHANGED notAdapter
  \/ OpenAI_cancelResolved /\ UNCHANGED notAdapter
  \/ \E e \in VendorErrors : OpenAI_cancelRejected(e) /\ UNCHANGED notAdapter
  \/ \E b \in BatchIds : Anthropic_getBatch(b) /\ UNCHANGED notAdapter
  \/ /\ opPc = "await_retrieve" /\ opProvider = "anthropic"
     /\ \E batch \in SessionAnthropicBatches(KnownBatch, vStatus) :
          Anthropic_getBatch_retrieveResolved(batch)
     /\ UNCHANGED notAdapter
  \/ \E e \in VendorErrors : Anthropic_getBatch_retrieveRejected(e) /\ UNCHANGED notAdapter
  \/ \E b \in BatchIds : Anthropic_getBatchResults(b) /\ UNCHANGED notAdapter
  \/ Anthropic_resultsResolved /\ UNCHANGED notAdapter
  \/ \E e \in VendorErrors : Anthropic_resultsRejected(e) /\ UNCHANGED notAdapter
  \/ \E r \in SessionRecords : Anthropic_feedNext(r) /\ UNCHANGED notAdapter
  \/ Anthropic_feedDone /\ UNCHANGED notAdapter
  \/ \E e \in VendorErrors : Anthropic_feedRejected(e) /\ UNCHANGED notAdapter
  \/ \E b \in BatchIds : Anthropic_cancelBatch(b) /\ UNCHANGED notAdapter
  \/ Anthropic_cancelResolved /\ UNCHANGED notAdapter
  \/ \E e \in VendorErrors : Anthropic_cancelRejected(e) /\ UNCHANGED notAdapter
  \/ \E st \in SessionStatuses : VendorChanges(st) /\ UNCHANGED notAdapter
  \/ AdapterSettled /\ UNCHANGED notAdapter

SpecSession == Init /\ [][NextSession]_vars

(***************************************************************************)
(* The adapters' constructors (part_003 21-26, anthropic.ts 20-25).  The   *)
(* environment is set up before the adapters are constructed.  An absent   *)
(* constructor argument is None; an object is a function of the fields it  *)
(* has.                                                                    *)
(***************************************************************************)
EnvName == [openai |-> "OPENAI_API_KEY", anthropic |-> "ANTHROPIC_API_KEY"]

\* the values a key may be given; the empty string is a value too
EnvValues == {"", "sk-env"}

\* the config arguments: none, {}, and objects with an apiKey
Configs == {None, NoFields, [apiKey |-> ""], [apiKey |-> "sk-config"]}

\* JavaScript's truthiness of object[field]: undefined and "" are falsy
Truthy(object, field) == field \in DOMAIN object /\ object[field] # ""

\* a resolution that prefers the caller's configuration
ApiKeyOptions_ConfigFirst(name, cfg) ==
  IF Truthy(cfg, "apiKey") THEN [apiKey |-> cfg.apiKey]
  ELSE IF name \in DOMAIN env THEN [apiKey |-> env[name]]
  ELSE NoFields

\* part_003 24, anthropic.ts 23: { apiKey: process.env.<name> || config?.apiKey }
ApiKeyOptions(name, cfg) ==
  IF Truthy(env, name) THEN [apiKey |-> env[name]]
  ELSE IF "apiKey" \in DOMAIN cfg THEN [apiKey |-> cfg.apiKey]
  ELSE NoFields

\* the deployment sets a variable of the environment
SetEnv(name, value) ==
  /\ constructed = {}
  /\ env' = [n \in DOMAIN env \cup {name} |-> IF n = name THEN value ELSE env[n]]
  /\ UNCHANGED <<constructed, config, client>>

\* part_003 21-26: new OpenAILanguageModel(modelId, config)
OpenAI_constructor(cfg) ==
  /\ "openai" \notin constructed
  /\ constructed' = constructed \cup {"openai"}
  /\ config' = [config EXCEPT !.openai = cfg]
  /\ client' = [client EXCEPT !.openai = ApiKeyOptions(EnvName.openai, cfg)]
  /\ UNCHANGED env

\* anthropic.ts 20-25: new AnthropicLanguageModel(modelId, config)
Anthropic_constructor(cfg) ==
  /\ "anthropic" \notin constructed
  /\ constructed' = constructed \cup {"anthropic"}
  /\ config' = [config EXCEPT !.anthropic = cfg]
  /\ client' = [client EXCEPT !.anthropic = ApiKeyOptions(EnvName.anthropic, cfg)]
  /\ UNCHANGED env

NextConstruct ==
  \/ \E p \in Providers, value \in EnvValues :
       SetEnv(EnvName[p], value) /\ UNCHANGED notConstruct
  \/ \E cfg \in Configs : OpenAI_constructor(cfg) /\ UNCHANGED notConstruct
  \/ \E cfg \in Configs : Anthropic_constructor(cfg) /\ UNCHANGED notConstruct

SpecConstruct == Init /\ [][NextConstruct]_vars

(***************************************************************************)
(* The polling loop of the README's processBatch (README.md 50-71) on the  *)
(* facade, on an adapter, on the vendor.  A call on the model made by      *)
(* getObjectBatch is an adapter call; what the adapter call settles with   *)
(* is what the facade's await gets.                                        *)
(***************************************************************************)
\* the native statuses in which the vendor leaves its batch for good
FinalStatuses ==
  [openai |-> {"completed", "failed", "expired", "cancelled"},
   anthropic |-> {"ended"}]

\* README.md 58-66: the two tests that break the loop
ShouldStopPolling(batch) == batch.status = "completed" \/ batch.status = "failed"

\* README.md 50-52: processBatch starts and awaits createObjectBatch
processBatch(provider) ==
  /\ pPc = "idle"
  /\ pPc' = "await_createObjectBatch"
  /\ pProvider' = provider

\* README.md 52: createObjectBatch resolved with the id of the batch the
\* vendor knows, or it rejected, and so does processBatch
processBatch_createSettled(how) ==
  /\ pPc = "await_createObjectBatch"
  /\ pPc' = IF how = "resolved" THEN "polling" ELSE "rejected"
  /\ UNCHANGED pProvider

\* README.md 55-56, index.ts 88 and part_003 92-94 or anthropic.ts 78-80:
\* the loop calls getObjectBatch, that calls model.getBatch, that asks the
\* vendor
processBatch_poll ==
  /\ pPc = "polling"
  /\ pPc' = "await_getObjectBatch"
  /\ getObjectBatch(KnownBatch)
  /\ IF pProvider = "openai"
       THEN OpenAI_getBatch(KnownBatch)
       ELSE Anthropic_getBatch(KnownBatch)
  /\ UNCHANGED pProvider

\* README.md 56-69: getObjectBatch resolved; break, or wait before polling
\* again
processBatch_pollResolved ==
  /\ pPc = "await_getObjectBatch"
  /\ fPc = "resolved"
  /\ pPc' = IF ShouldStopPolling(fReturn.batch) THEN "done" ELSE "await_timeout"
  /\ FacadeSettled
  /\ UNCHANGED pProvider

\* README.md 56: getObjectBatch rejected; nothing catches, processBatch rejects
processBatch_pollRejected ==
  /\ pPc = "await_getObjectBatch"
  /\ fPc = "rejected"
  /\ pPc' = "rejected"
  /\ FacadeSettled
  /\ UNCHANGED pProvider

\* README.md 69: the timer fired; next round of the loop
processBatch_timeout ==
  /\ pPc = "await_timeout"
  /\ pPc' = "polling"
  /\ UNCHANGED pProvider

\* the vendor moves the batch on, until it is in a final status
PollVendorChanges(status) ==
  /\ pPc \notin {"idle", "await_createObjectBatch"}
  /\ vStatus \notin FinalStatuses[pProvider]
  /\ status \in FinalStatuses[pProvider] \cup {"in_progress"}
  /\ VendorChanges(status)

\* The steps between the facade and the adapter: the await of a call on the
\* model (index.ts 88, 91) gets what the adapter call settled with, and the
\* call of model.getBatchResults (index.ts 91) is the adapter's.
NextPoll ==
  \/ \E provider \in Providers :
       /\ processBatch(provider)
       /\ UNCHANGED <<facadeVars, createVars, adapterVars, constructVars>>
  \/ /\ processBatch_createSettled("resolved")
     /\ UNCHANGED <<facadeVars, createVars, adapterVars, constructVars>>
  \/ /\ processBatch_createSettled("rejected")
     /\ UNCHANGED <<facadeVars, createVars, adapterVars, constructVars>>
  \/ processBatch_poll /\ UNCHANGED <<createVars, constructVars>>
  \/ /\ opPc = "await_retrieve" /\ opProvider = "openai" /\ opName = "getBatch"
     /\ \E batch \in OpenAIVendorBatches(KnownBatch, vStatus) :
          OpenAI_getBatch_retrieveResolved(batch) /\ UNCHANGED notAdapter
  \/ \E e \in VendorErrors : OpenAI_getBatch_retrieveRejected(e) /\ UNCHANGED notAdapter
  \/ /\ opPc = "await_retrieve" /\ opProvider = "anthropic" /\ opName = "getBatch"
     /\ \E batch \in SessionAnthropicBatches(KnownBatch, vStatus) :
          Anthropic_getBatch_retrieveResolved(batch) /\ UNCHANGED notAdapter
  \/ \E e \in VendorErrors :
       Anthropic_getBatch_retrieveRejected(e) /\ UNCHANGED notAdapter
  \/ /\ opName = "getBatch" /\ opPc = "resolved"
     /\ getObjectBatch_getBatchResolved(opResult)
     /\ AdapterSettled
     /\ UNCHANGED <<createVars, constructVars, pPc, pProvider>>
  \/ /\ opName = "getBatch" /\ opPc = "rejected"
     /\ getObjectBatch_getBatchRejected(opResult)
     /\ AdapterSettled
     /\ UNCHANGED <<createVars, constructVars, pPc, pProvider>>
  \/ /\ pPc = "await_getObjectBatch" /\ fPc = "await_getBatchResults"
     /\ pProvider = "openai"
     /\ OpenAI_getBatchResults(fBatchId)
     /\ UNCHANGED notAdapter
  \/ /\ pPc = "await_getObjectBatch" /\ fPc = "await_getBatchResults"
     /\ pProvider = "anthropic"
     /\ Anthropic_getBatchResults(fBatchId)
     /\ UNCHANGED notAdapter
  \/ /\ opPc = "await_retrieve" /\ opProvider = "openai" /\ opName = "getBatchResults"
     /\ \E batch \in OpenAIVendorBatches(KnownBatch, vStatus) :
          OpenAI_getBatchResults_retrieveResolved(batch) /\ UNCHANGED notAdapter
  \/ \E e \in VendorErrors :
       OpenAI_getBatchResults_retrieveRejected(e) /\ UNCHANGED notAdapter
  \/ OpenAI_filesContentResolved /\ UNCHANGED notAdapter
  \/ \E e \in VendorErrors : OpenAI_filesContentRejected(e) /\ UNCHANGED notAdapter
  \/ \E text \in SessionTexts : OpenAI_textResolved(text) /\ UNCHANGED notAdapter
  \/ Anthropic_resultsResolved /\ UNCHANGED notAdapter
  \/ \E e \in VendorErrors : Anthropic_resultsRejected(e) /\ UNCHANGED notAdapter
  \/ \E record \in SessionRecords : Anthropic_feedNext(record) /\ UNCHANGED notAdapter
  \/ Anthropic_feedDone /\ UNCHANGED notAdapter
  \/ \E e \in VendorErrors : Anthropic_feedRejected(e) /\ UNCHANGED notAdapter
  \/ /\ opName = "getBatchResults" /\ opPc = "resolved"
     /\ getObjectBatch_getBatchResultsResolved(opResult)
     /\ AdapterSettled
     /\ UNCHANGED <<createVars, constructVars, pPc, pProvider>>
  \/ /\ opName = "getBatchResults" /\ opPc = "rejected"
     /\ getObjectBatch_getBatchResultsRejected(opResult)
     /\ AdapterSettled
     /\ UNCHANGED <<createVars, constructVars, pPc, pProvider>>
  \/ processBatch_pollResolved /\ UNCHANGED <<createVars, adapterVars, constructVars>>
  \/ processBatch_pollRejected /\ UNCHANGED <<createVars, adapterVars, constructVars>>
  \/ /\ processBatch_timeout
     /\ UNCHANGED <<facadeVars, createVars, adapterVars, constructVars>>
  \/ \E status \in VendorStatusStrings :
       PollVendorChanges(status) /\ UNCHANGED notAdapter

\* Fairness on the steps of the program and of the vendor's replies: every
\* promise in flight settles, every continuation of a settled promise runs,
\* the timer fires.  The vendor is not bound to move the batch on.  Every
\* such step changes a position or the length of the feed read.
SpecPoll ==
  /\ Init
  /\ [][NextPoll]_vars
  /\ WF_<<pPc, fPc, opPc, Len(opRaw)>>(NextPoll /\ vStatus' = vStatus)

(***************************************************************************)
(* Claims about the facade, checked under Spec.                            *)
(***************************************************************************)
ResultsCalls == {i \in 1..Len(fCalls) : fCalls[i].op = "getBatchResults"}

\* C1: whenever model.getBatch resolved with a batch whose status is not
\* `completed`, getObjectBatch has resolved at once with an object holding
\* only `batch` (that very batch; `results` absent), and it has made no
\* getBatchResults call on the model.
C1_NotCompletedReturnsBatchOnly ==
  (fBatch # None /\ fBatch.status # "completed") =>
    /\ fPc \in {"resolved", "idle"}
    /\ DOMAIN fReturn = {"batch"}
    /\ fReturn.batch = fBatch
    /\ ResultsCalls = {}
    /\ fCalls = <<ModelCall("getBatch", fBatchId)>>

C1_Witness ==
  /\ fPc = "resolved"
  /\ fBatch # None
  /\ fBatch.status = "cancelled"
  /\ "results" \notin DOMAIN fReturn

\* C2: when model.getBatch resolved with a `completed` batch, getObjectBatch
\* calls model.getBatchResults exactly once, with the same batchId, and only
\* after getBatch has replied; once getBatchResults resolves it returns
\* {batch, results} with that batch and exactly the array the model replied.
C2_CompletedFetchesResultsOnce ==
  (fBatch # None /\ fBatch.status = "completed") =>
    /\ fCalls = <<ModelCall("getBatch", fBatchId),
                  ModelCall("getBatchResults", fBatchId)>>
    /\ Len(fReplies) >= 1
    /\ fReplies[1] = ModelReply("resolved", fBatch)
    /\ fPc = "await_getBatchResults" => Len(fReplies) = 1
    /\ (Len(fReplies) = 2 /\ fReplies[2].how = "resolved") =>
          /\ fPc \in {"resolved", "idle"}
          /\ DOMAIN fReturn = {"batch", "results"}
          /\ fReturn.batch = fBatch
          /\ fReturn.results = fReplies[2].value

C2_Witness ==
  /\ fPc = "resolved"
  /\ fBatch # None
  /\ fBatch.status = "completed"
  /\ "results" \in DOMAIN fReturn
  /\ Len(fReturn.results) = 2

(***************************************************************************)
(* Claims about createBatch, checked under SpecCreate.                     *)
(***************************************************************************)
Settled(p) == cPc[p] \in {"resolved", "rejected"}

\* no other call has started: what p sees is its own doing
Alone(p) == \A q \in Calls \ {p} : cPc[q] = "idle"

\* C6: once an OpenAI createBatch call that wrote its temp file has settled
\* (returned a batch id or thrown), that temp file no longer exists.
C6_TempFileReleasedOnEveryExit ==
  \A p \in Calls :
    (cProvider[p] = "openai" /\ Alone(p) /\ Settled(p) /\ cWrote[p]) =>
      cJsonlFile[p] \notin DOMAIN fs

\* the calls that hold a temp file: written, and not yet deleted or abandoned
HoldsTempFile(p) ==
  /\ cProvider[p] = "openai"
  /\ cPc[p] \in {"await_filesCreate", "await_batchesCreate", "await_unlink"}

\* C7: two overlapping OpenAI createBatch calls never share a temp file: the
\* two never hold a file of the same name, each uploads the payload of its
\* own requests, and neither finds its file gone.
C7_ConcurrentCallsShareNoTempFile ==
  /\ \A p, q \in Calls :
       (p # q /\ HoldsTempFile(p) /\ HoldsTempFile(q)) =>
         cJsonlFile[p] # cJsonlFile[q]
  /\ \A p \in Calls :
       (cProvider[p] = "openai" /\ cFileId[p] # NoName) =>
         \E i \in 1..Len(oFiles) :
           /\ cFileId[p] = FileIdName(i)
           /\ oFiles[i].file = OpenAIJsonlContent(cRequests[p], OutputSchema)
  /\ \A p \in Calls :
       cPc[p] = "rejected" =>
         cResult[p].message # "ENOENT: no such file or directory"

\* the message list the claims ask of a request
ExpectedMessages(request) ==
  IF "systemPrompt" \in DOMAIN request
    THEN <<[role |-> "system", content |-> request.systemPrompt],
           [role |-> "user", content |-> request.input]>>
    ELSE <<[role |-> "user", content |-> request.input]>>

\* C8: in the file an OpenAI createBatch call has just written, the line of
\* a request with systemPrompt has the messages <<system (that text), user>>
\* and the line of a request without it has the user message only.
C8_OpenAISystemPromptInMessages ==
  \A p \in Calls :
    (cProvider[p] = "openai" /\ Alone(p) /\ cPc[p] = "await_filesCreate") =>
      \A i \in 1..Len(cRequests[p]) :
        fs[cJsonlFile[p]][i].body.messages = ExpectedMessages(cRequests[p][i])

\* C9: in the batch an Anthropic createBatch call registered, the params of
\* a request with systemPrompt carry `system` equal to it, and the params of
\* a request without it carry no `system` field.
C9_AnthropicSystemField ==
  \A p \in Calls :
    (cProvider[p] = "anthropic" /\ Alone(p) /\ cPc[p] = "resolved") =>
      \A b \in 1..Len(aBatches) :
        aBatches[b].id = cResult[p].batchId =>
          \A i \in 1..Len(cRequests[p]) :
            LET params == aBatches[b].requests[i].params
                request == cRequests[p][i]
            IN  IF "systemPrompt" \in DOMAIN request
                  THEN /\ "system" \in DOMAIN params
                       /\ params.system = request.systemPrompt
                  ELSE "system" \notin DOMAIN params

(***************************************************************************)
(* Claims about the adapters' calls, checked under SpecAdapter.            *)
(***************************************************************************)
CalledEndpoints == {opVendorCalls[i].endpoint : i \in 1..Len(opVendorCalls)}

\* C3: an OpenAI getBatchResults call whose retrieved batch has no
\* output_file_id has rejected with code results_not_ready and message
\* 'Batch results not yet available', and has asked for no file content.
C3_OpenAINoOutputFileIsNotReady ==
  (/\ opProvider = "openai"
   /\ opName = "getBatchResults"
   /\ opBatch # None
   /\ "output_file_id" \notin DOMAIN opBatch) =>
    /\ opPc = "rejected"
    /\ opResult.code = "results_not_ready"
    /\ opResult.message = "Batch results not yet available"
    /\ "files.content" \notin CalledEndpoints

\* C4: an Anthropic getBatchResults call on a batch whose processing_status
\* is not `ended` never calls the vendor's results feed, and settles only by
\* rejecting with 'Batch results not yet available' (results_not_ready).
C4_AnthropicNotEndedIsNotReady ==
  (/\ opProvider = "anthropic"
   /\ opName = "getBatchResults"
   /\ vStatus # "ended") =>
    /\ "messages.batches.results" \notin CalledEndpoints
    /\ opPc # "resolved"
    /\ opPc = "rejected" =>
         /\ opResult.code = "results_not_ready"
         /\ opResult.message = "Batch results not yet available"

IsRecordChar(c) == c \in DOMAIN OpenAIRecordJson

\* the custom_ids of the raw records the vendor delivered, in its order: of
\* the record texts of the OpenAI file, of the records of the Anthropic feed
RawCustomIds ==
  IF opProvider = "openai"
    THEN LET records == SelectSeq(opRaw, IsRecordChar)
         IN  [i \in 1..Len(records) |-> OpenAIRecordJson[records[i]].custom_id]
    ELSE [i \in 1..Len(opRaw) |-> opRaw[i].custom_id]

\* C5: a getBatchResults call of either adapter that resolved returns one
\* BatchResponse per raw record the vendor delivered, in the vendor's order,
\* each with the customId of its record: so each custom_id comes back as
\* often as the vendor sent it.
C5_OneResponsePerRecordInOrder ==
  (opName = "getBatchResults" /\ opPc = "resolved") =>
    /\ Len(opResult) = Len(RawCustomIds)
    /\ \A i \in 1..Len(opResult) : opResult[i].customId = RawCustomIds[i]
    /\ \A c \in CustomIds :
         Cardinality({i \in 1..Len(opResult) : opResult[i].customId = c})
           = Cardinality({i \in 1..Len(RawCustomIds) : RawCustomIds[i] = c})

C5_Witness ==
  /\ opProvider = "openai"
  /\ opName = "getBatchResults"
  /\ opPc = "resolved"
  /\ opRaw = <<"ok1", NL, NL, "ok0">>
  /\ Len(opResult) = 2
  /\ opResult[1].customId = "request-1"
  /\ opResult[2].customId = "request-0"

\* the native status of the batch a getBatch call retrieved
RetrievedStatus ==
  IF opProvider = "openai" THEN opBatch.status ELSE opBatch.processing_status

\* C10: the Batch a getBatch call resolved with has one of the seven
\* canonical statuses: with the OpenAI adapter the native status itself when
\* it is one of the seven; with the Anthropic adapter in_progress for
\* in_progress, completed for ended, cancelling for canceling; and `failed`
\* for every other native status, with both.
C10_StatusMappingTotal ==
  (opName = "getBatch" /\ opPc = "resolved") =>
    /\ opResult.status \in BatchStatus
    /\ opProvider = "openai" =>
         opResult.status =
           IF RetrievedStatus \in BatchStatus THEN RetrievedStatus ELSE "failed"
    /\ opProvider = "anthropic" =>
         /\ RetrievedStatus = "in_progress" => opResult.status = "in_progress"
         /\ RetrievedStatus = "ended" => opResult.status = "completed"
         /\ RetrievedStatus = "canceling" => opResult.status = "cancelling"
         /\ RetrievedStatus \notin {"in_progress", "ended", "canceling"} =>
              opResult.status = "failed"

C10_Witness ==
  /\ opName = "getBatch"
  /\ opPc = "resolved"
  /\ opProvider = "openai"
  /\ opBatch.status = "cancelling"
  /\ opResult.status = "cancelling"

(***************************************************************************)
(* Claims about all the operations, checked under SpecAll.                 *)
(***************************************************************************)
ErrorCodes ==
  {"batch_creation_failed", "batch_retrieval_failed", "results_not_ready",
   "results_retrieval_failed", "batch_cancellation_failed"}

\* the codes the claims allow an operation to fail with
AllowedCodes(name) ==
  CASE name = "createBatch" -> {"batch_creation_failed"}
    [] name = "getBatch" -> {"batch_retrieval_failed"}
    [] name = "getBatchResults" -> {"results_not_ready", "results_retrieval_failed"}
    [] name = "cancelBatch" -> {"batch_cancellation_failed"}

\* C11: every adapter call that has rejected holds a BatchError whose code is
\* one of the five codes and one of those of its operation (createBatch:
\* batch_creation_failed; getBatch: batch_retrieval_failed; getBatchResults:
\* results_not_ready or results_retrieval_failed; cancelBatch:
\* batch_cancellation_failed); the error of getBatch, getBatchResults and
\* cancelBatch carries the batchId the call was given.
C11_FailureIsBatchErrorOfTheOperation ==
  /\ \A p \in Calls :
       cPc[p] = "rejected" =>
         /\ {"message", "code"} \subseteq DOMAIN cResult[p]
         /\ cResult[p].code \in ErrorCodes \cap AllowedCodes("createBatch")
  /\ opPc = "rejected" =>
       /\ DOMAIN opResult = {"message", "code", "batchId"}
       /\ opResult.code \in ErrorCodes \cap AllowedCodes(opName)
       /\ opResult.batchId = opBatchId

C11_Witness ==
  /\ opPc = "rejected"
  /\ opProvider = "anthropic"
  /\ opName = "getBatchResults"
  /\ opBatchId = BatchIdName(2)
  /\ opResult.code = "results_retrieval_failed"
  /\ opResult.batchId = BatchIdName(2)

(***************************************************************************)
(* More claims about the adapters' calls, checked under SpecAdapter.       *)
(***************************************************************************)
\* C12: a cancelBatch call whose vendor cancel call was rejected has not
\* resolved: it has rejected with a BatchError of code
\* batch_cancellation_failed, with the message of the vendor's error and the
\* batchId the call was given.
C12_CancelRejectionSurfaces ==
  (opName = "cancelBatch" /\ opCaught # None) =>
    /\ opPc = "rejected"
    /\ opCaught \in VendorErrors
    /\ opResult =
         BatchErrorFor(opCaught.message, "batch_cancellation_failed", opBatchId)

C12_Witness ==
  /\ opName = "cancelBatch"
  /\ opProvider = "anthropic"
  /\ opPc = "rejected"
  /\ opCaught.message = "Cannot cancel completed batch"
  /\ opResult.message = "Cannot cancel completed batch"
  /\ opResult.code = "batch_cancellation_failed"
  /\ opResult.batchId = opBatchId

Populated(response, field) == field \in DOMAIN response

\* C13: every BatchResponse a getBatchResults call of either adapter resolved
\* with has exactly one of `output` and `error` populated.
C13_ExactlyOneOfOutputAndError ==
  (opName = "getBatchResults" /\ opPc = "resolved") =>
    \A i \in 1..Len(opResult) :
      Populated(opResult[i], "output") # Populated(opResult[i], "error")

\* the lines JSON.parse takes, and whether each is a record the vendor may
\* send: a response whose content is JSON, or a per-item error
PayloadLines == NonBlankLines(Split(opRaw))

IsItemFailure(line) ==
  /\ LineIsJson(line)
  /\ ~HasContent(LineJson(line))
  /\ "error" \in DOMAIN LineJson(line)

IsItemSuccess(line) == LineIsJson(line) /\ ContentIsJson(LineJson(line))

\* C14: an OpenAI getBatchResults call whose result file holds only decodable
\* responses and per-item failures (an `error`, no response) has resolved,
\* with one BatchResponse per record: that of a per-item failure has the
\* record's error and no output.
C14_OpenAIItemFailureDecodes ==
  (/\ opProvider = "openai"
   /\ opName = "getBatchResults"
   /\ opPc \in {"resolved", "rejected"}
   /\ opRaw # <<>>
   /\ \A i \in 1..Len(PayloadLines) :
        IsItemSuccess(PayloadLines[i]) \/ IsItemFailure(PayloadLines[i])) =>
    /\ opPc = "resolved"
    /\ Len(opResult) = Len(PayloadLines)
    /\ \A i \in 1..Len(PayloadLines) :
         IsItemFailure(PayloadLines[i]) =>
           /\ Populated(opResult[i], "error")
           /\ opResult[i].error.message = LineJson(PayloadLines[i]).error.message
           /\ ~Populated(opResult[i], "output")

\* C15: in what an Anthropic getBatchResults call resolved with, the
\* BatchResponse of a record whose outcome type is not `succeeded` has no
\* output, error.code equal to the outcome type, and error.message equal to
\* the record's error message when it has one, 'Request failed' otherwise.
C15_AnthropicErrorFromVendor ==
  (opProvider = "anthropic" /\ opName = "getBatchResults" /\ opPc = "resolved") =>
    \A i \in 1..Len(opRaw) :
      opRaw[i].result.type # "succeeded" =>
        /\ ~Populated(opResult[i], "output")
        /\ Populated(opResult[i], "error")
        /\ opResult[i].error.code = opRaw[i].result.type
        /\ opResult[i].error.message =
             IF "error" \in DOMAIN opRaw[i].result
               THEN opRaw[i].result.error.message
               ELSE "Request failed"

(***************************************************************************)
(* The Anthropic tool wrapping, checked under SpecAll: createBatch wraps,  *)
(* getBatchResults unwraps.                                                *)
(***************************************************************************)
\* the first format_response tool_use block of a succeeded record
FormatResponseBlock(record) ==
  record.result.message.content[
    Least(FormatResponseBlocks(record.result.message.content))]

HasFormatResponse(record) ==
  /\ record.result.type = "succeeded"
  /\ FormatResponseBlocks(record.result.message.content) # {}

\* C16: in what an Anthropic getBatchResults call resolved with, the output
\* of a succeeded record whose format_response tool_use block has input
\* {response: X} is X itself, not the wrapper; and every batch createBatch
\* registered asks for that wrapper: its one tool is format_response with
\* input_schema {type: object, properties: {response: <the caller's schema>}}.
C16_AnthropicUnwrapsResponse ==
  /\ (opProvider = "anthropic" /\ opName = "getBatchResults" /\ opPc = "resolved") =>
       \A i \in 1..Len(opRaw) :
         HasFormatResponse(opRaw[i]) =>
           /\ Populated(opResult[i], "output")
           /\ opResult[i].output = FormatResponseBlock(opRaw[i]).input.response
           /\ [response |-> opResult[i].output] = FormatResponseBlock(opRaw[i]).input
  /\ \A b \in 1..Len(aBatches) :
       \A i \in 1..Len(aBatches[b].requests) :
         LET params == aBatches[b].requests[i].params
         IN  /\ Len(params.tools) = 1
             /\ IsFormatResponse([type |-> "tool_use", name |-> params.tools[1].name])
             /\ params.tool_choice.name = params.tools[1].name
             /\ params.tools[1].input_schema =
                  [type |-> "object", properties |-> [response |-> OutputSchema]]

C16_Witness ==
  /\ opProvider = "anthropic"
  /\ opName = "getBatchResults"
  /\ opPc = "resolved"
  /\ Len(opRaw) = 2
  /\ HasFormatResponse(opRaw[2])
  /\ opResult[2].output = [sentiment |-> "positive"]

(***************************************************************************)
(* Claims about decoding, checked under SpecAdapter.                       *)
(***************************************************************************)
\* a line of nothing but blanks
IsBlankLine(line) == \A k \in 1..Len(line) : line[k] = SP

RawLines == Split(opRaw)

NonBlankRawLines == {i \in 1..Len(RawLines) : ~IsBlankLine(RawLines[i])}

\* C17: an OpenAI getBatchResults call whose result file has a decodable
\* record on every line that is not blank has resolved, wherever the empty
\* and the whitespace-only lines are, with as many BatchResponses as there
\* are non-blank lines.
C17_OpenAIBlankLinesSkipped ==
  (/\ opProvider = "openai"
   /\ opName = "getBatchResults"
   /\ opPc \in {"resolved", "rejected"}
   /\ opRaw # <<>>
   /\ \A i \in NonBlankRawLines : IsItemSuccess(RawLines[i])) =>
    /\ opPc = "resolved"
    /\ Len(opResult) = Cardinality(NonBlankRawLines)

C17_Witness ==
  /\ opProvider = "openai"
  /\ opName = "getBatchResults"
  /\ opPc = "resolved"
  /\ opRaw = <<NL, "ok0", NL, SP>>
  /\ Len(opResult) = 1

\* C18: the Batch an Anthropic getBatch call resolved with has
\* requestCounts.total equal to the sum of its completed, failed, processing,
\* cancelled and expired, which are the vendor's succeeded, errored,
\* processing, canceled and expired counts.
C18_AnthropicTotalIsSum ==
  (opProvider = "anthropic" /\ opName = "getBatch" /\ opPc = "resolved") =>
    LET requestCounts == opResult.requestCounts
        counts == opBatch.request_counts
    IN  /\ requestCounts.total =
             requestCounts.completed + requestCounts.failed + requestCounts.processing
               + requestCounts.cancelled + requestCounts.expired
        /\ requestCounts.completed = counts.succeeded
        /\ requestCounts.failed = counts.errored
        /\ requestCounts.processing = counts.processing
        /\ requestCounts.cancelled = counts.canceled
        /\ requestCounts.expired = counts.expired

C18_Witness ==
  /\ opProvider = "anthropic"
  /\ opName = "getBatch"
  /\ opPc = "resolved"
  /\ opBatch.request_counts =
       [processing |-> 1, succeeded |-> 2, errored |-> 1, canceled |-> 2, expired |-> 1]
  /\ opResult.requestCounts.total = 7

(***************************************************************************)
(* No retries and no polling, checked under SpecAll.                       *)
(***************************************************************************)
\* no element of the sequence occurs twice
NoRepeat(calls) ==
  \A i, j \in 1..Len(calls) : i # j => calls[i] # calls[j]

IsSettled(pc) == pc \in {"resolved", "rejected"}

\* what holds of every state: each call log names an endpoint at most once,
\* and a call whose vendor (or model) call failed has rejected at that moment
SingleRound ==
  /\ NoRepeat([i \in 1..Len(fCalls) |-> fCalls[i].op])
  /\ Len(fCalls) <= 2
  /\ Len(fReplies) <= Len(fCalls)
  /\ \A i \in 1..Len(fReplies) :
       fReplies[i].how = "rejected" =>
         /\ i = Len(fCalls)
         /\ fPc \in {"rejected", "idle"}
  /\ NoRepeat([i \in 1..Len(opVendorCalls) |-> opVendorCalls[i].endpoint])
  /\ Len(opVendorCalls) <= 2
  /\ opCaught # None => opPc = "rejected"
  /\ \A p \in Calls :
       /\ NoRepeat(cVendorCalls[p])
       /\ Len(cVendorCalls[p]) <= 2

\* what holds of every step: a call that has settled calls nothing more
NothingAfterSettling ==
  /\ IsSettled(fPc) => fCalls' = fCalls
  /\ IsSettled(opPc) => opVendorCalls' \in {opVendorCalls, <<>>}
  /\ \A p \in Calls : IsSettled(cPc[p]) => cVendorCalls'[p] = cVendorCalls[p]

RetrieveEndpoint ==
  IF opProvider = "openai" THEN "batches.retrieve" ELSE "messages.batches.retrieve"

\* the canonical status of the vendor's batch as it stands now
StatusNow ==
  IF opProvider = "openai"
    THEN IF vStatus \in BatchStatus THEN vStatus ELSE "failed"
    ELSE CASE vStatus = "in_progress" -> "in_progress"
           [] vStatus = "ended" -> "completed"
           [] vStatus = "canceling" -> "cancelling"
           [] OTHER -> "failed"

\* C20: whatever calls were made before and whatever createBatch call is in
\* flight, a getBatch call that resolved has made exactly one vendor
\* retrieve, for its batchId, and returns the Batch of the record the vendor
\* replied with: the id is the record's id, the status is the canonical
\* status of the vendor's batch as it stands at that moment, and every other
\* field is computed from the record alone.
C20_GetBatchIsFreshSnapshot ==
  (opName = "getBatch" /\ opPc = "resolved") =>
    /\ opVendorCalls = <<VendorCall(RetrieveEndpoint, opBatchId)>>
    /\ opBatch.id = opBatchId
    /\ opResult.id = opBatch.id
    /\ RetrievedStatus = vStatus
    /\ opResult.status = StatusNow
    /\ opResult.requestCounts.completed =
         IF opProvider = "openai"
           THEN CountOrZero(opBatch, "completed")
           ELSE opBatch.request_counts.succeeded
    /\ Populated(opResult, "completedAt") =
         IF opProvider = "openai"
           THEN "completed_at" \in DOMAIN opBatch
           ELSE "ended_at" \in DOMAIN opBatch

\* a getBatch that resolved after a cancelBatch got through, while a
\* createBatch call of the other caller is waiting for the vendor
C20_Witness ==
  /\ opName = "getBatch"
  /\ opPc = "resolved"
  /\ opProvider = "openai"
  /\ vStatus = "cancelling"
  /\ opResult.status = "cancelling"
  /\ cPc[Creator] = "await_batchesCreate"
  /\ Len(oFiles) = 1

(***************************************************************************)
(* More claims about the facade, checked under Spec.                       *)
(***************************************************************************)
\* the facade call at hand is a createObjectBatch
IsCreateObjectBatch == fParams # None

EnvIsSet(p) == EnvName[p] \in DOMAIN env /\ env[EnvName[p]] # ""

\* C22: the client of a constructed adapter has the value of the adapter's
\* environment variable as its apiKey whenever that variable is set and not
\* empty, whatever config.apiKey is; and it has config.apiKey (or none, when
\* config has none) only when the variable is not set so.
C22_ApiKeyFromEnvironmentFirst ==
  \A p \in constructed :
    /\ EnvIsSet(p) => client[p] = [apiKey |-> env[EnvName[p]]]
    /\ ~EnvIsSet(p) =>
         IF "apiKey" \in DOMAIN config[p]
           THEN client[p] = [apiKey |-> config[p].apiKey]
           ELSE "apiKey" \notin DOMAIN client[p]

C22_Witness ==
  /\ constructed = Providers
  /\ env = [n \in {EnvName.openai} |-> "sk-env"]
  /\ config.openai = [apiKey |-> "sk-config"]
  /\ client.openai = [apiKey |-> "sk-env"]
  /\ config.anthropic = [apiKey |-> "sk-config"]
  /\ client.anthropic = [apiKey |-> "sk-config"]

(***************************************************************************)
(* More claims about createBatch, checked under SpecCreate.                *)
(***************************************************************************)
\* the batches the vendor registered for the file call p uploaded
RegisteredFor(p) ==
  {b \in 1..Len(oBatches) : oBatches[b].input_file_id = cFileId[p]}

Uploaded(p) == cFileId[p] # NoName

\* C23: an OpenAI createBatch call goes through write, upload, register,
\* delete, return, each step begun only when the one before has resolved:
\* nothing is uploaded before the file is written; no batch is registered
\* for the call before its upload (purpose 'batch') has resolved with the
\* file id, and the one registered has that id as input_file_id, endpoint
\* '/v1/chat/completions' and completion_window '24h'; a call running alone
\* keeps its file until the registration has resolved; and the call returns
\* the registered batch's id, with the file deleted.
C23_OpenAICreateBatchStepOrder ==
  \A p \in Calls :
    cProvider[p] = "openai" =>
      /\ cPc[p] \in {"idle", "await_writeFile"} =>
           ~cWrote[p] /\ ~Uploaded(p) /\ cVendorCalls[p] = <<>>
      /\ cPc[p] = "await_filesCreate" =>
           cWrote[p] /\ ~Uploaded(p) /\ cVendorCalls[p] = <<"files.create">>
      /\ ~Uploaded(p) => RegisteredFor(p) = {}
      /\ Uploaded(p) =>
           \E i \in 1..Len(oFiles) :
             cFileId[p] = FileIdName(i) /\ oFiles[i].purpose = "batch"
      /\ cPc[p] = "await_batchesCreate" =>
           /\ RegisteredFor(p) = {}
           /\ cVendorCalls[p] = <<"files.create", "batches.create">>
      /\ (Alone(p) /\ cPc[p] \in {"await_filesCreate", "await_batchesCreate",
                                   "await_unlink"}) =>
           cJsonlFile[p] \in DOMAIN fs
      /\ cPc[p] \in {"await_unlink", "resolved"} =>
           /\ cWrote[p] /\ Uploaded(p)
           /\ Cardinality(RegisteredFor(p)) = 1
           /\ \A b \in RegisteredFor(p) :
                /\ oBatches[b].endpoint = "/v1/chat/completions"
                /\ oBatches[b].completion_window = "24h"
                /\ cPc[p] = "resolved" => cResult[p] = [batchId |-> oBatches[b].id]
      /\ (Alone(p) /\ cPc[p] = "resolved") => cJsonlFile[p] \notin DOMAIN fs

C23_Witness ==
  \E p \in Calls :
    /\ cProvider[p] = "openai"
    /\ Alone(p)
    /\ cPc[p] = "resolved"
    /\ cResult[p] = [batchId |-> BatchIdName(1)]
    /\ oBatches[1].input_file_id = cFileId[p]
    /\ cVendorCalls[p] = <<"files.create", "batches.create">>
    /\ fs = [n \in {} |-> <<>>]


\* the messages of role user in a message list
UserMessages(messages) ==
  {m \in 1..Len(messages) : messages[m].role = "user"}

\* items has one item per request, in the requests' order, each with the
\* request's customId and one user message whose content is its input
OneItemPerRequest(items, requests, Messages(_)) ==
  /\ Len(items) = Len(requests)
  /\ \A i \in 1..Len(requests) :
       /\ items[i].custom_id = requests[i].customId
       /\ Cardinality(UserMessages(Messages(items[i]))) = 1
       /\ \A m \in UserMessages(Messages(items[i])) :
            Messages(items[i])[m].content = requests[i].input

OpenAIItemMessages(line) == line.body.messages

AnthropicItemMessages(item) == item.params.messages

ForcesFormatResponse(item) ==
  /\ item.params.tool_choice.type = "tool"
  /\ item.params.tool_choice.name = "format_response"
  /\ item.params.tool_choice.disable_parallel_tool_use = TRUE
  /\ Len(item.params.tools) = 1
  /\ item.params.tools[1].name = "format_response"

\* no other OpenAI call is under way: p's temp file is its own
OwnTempFile(p) ==
  \A q \in Calls \ {p} : cPc[q] = "idle" \/ cProvider[q] = "anthropic"

C24_PayloadOfSettled ==
  \A p \in Calls :
    /\ (cProvider[p] = "anthropic" /\ cPc[p] # "idle") =>
         cVendorCalls[p] = <<"messages.batches.create">>
    /\ (cProvider[p] = "anthropic" /\ cPc[p] = "resolved") =>
         /\ Cardinality({b \in 1..Len(aBatches) :
                           aBatches[b].id = cResult[p].batchId}) = 1
         /\ \A b \in 1..Len(aBatches) :
              aBatches[b].id = cResult[p].batchId =>
                /\ OneItemPerRequest(aBatches[b].requests, cRequests[p],
                                     AnthropicItemMessages)
                /\ \A i \in 1..Len(aBatches[b].requests) :
                     ForcesFormatResponse(aBatches[b].requests[i])
    /\ (cProvider[p] = "openai" /\ cPc[p] = "resolved") =>
         /\ cVendorCalls[p] = <<"files.create", "batches.create">>
         /\ Cardinality(RegisteredFor(p)) = 1
         /\ OwnTempFile(p) =>
              \A i \in 1..Len(oFiles) :
                cFileId[p] = FileIdName(i) =>
                  OneItemPerRequest(oFiles[i].file, cRequests[p],
                                    OpenAIItemMessages)

C24_PayloadWritten ==
  \A p \in Calls :
    (cPc[p] = "await_writeFile" /\ cPc'[p] = "await_filesCreate") =>
      OneItemPerRequest(fs'[cJsonlFile[p]], cRequests[p], OpenAIItemMessages)

IsGetObjectBatch == fParams = None /\ fCalls # <<>>

RejectedReplies == {i \in 1..Len(fReplies) : fReplies[i].how = "rejected"}

\* C25: getObjectBatch never answers a failure with a partial result.  When
\* model.getBatch rejected, the call has rejected with that same error,
\* has returned nothing and has made no getBatchResults call; when getBatch
\* resolved with a `completed` batch and model.getBatchResults rejected
\* (results_not_ready included), the call has rejected with that error and
\* has returned nothing, the batch snapshot included.
C25_FailureNeverMasked ==
  (IsGetObjectBatch /\ RejectedReplies # {}) =>
    /\ fPc \in {"rejected", "idle"}
    /\ fReturn = None
    /\ RejectedReplies = {Len(fReplies)}
    /\ fError = fReplies[Len(fReplies)].value
    /\ Len(fReplies) = 1 =>
         /\ fBatch = None
         /\ ResultsCalls = {}
         /\ fCalls = <<ModelCall("getBatch", fBatchId)>>
    /\ Len(fReplies) = 2 =>
         /\ fReplies[1] = ModelReply("resolved", fBatch)
         /\ fBatch.status = "completed"
    /\ Len(fReplies) <= 2

C25_Witness ==
  /\ IsGetObjectBatch
  /\ fPc = "rejected"
  /\ Len(fReplies) = 2
  /\ fBatch.status = "completed"
  /\ fError.code = "results_not_ready"


(***************************************************************************)
(* More claims about the adapters' operations, checked under SpecAdapter.  *)
(***************************************************************************)
\* a line of the result file that is not JSON
IsInvalidLine(line) == ~LineIsJson(line)

\* a line that is JSON and whose message content is text that is not JSON
IsInvalidContent(line) ==
  /\ LineIsJson(line)
  /\ HasContent(LineJson(line))
  /\ Content(LineJson(line)) \notin DOMAIN ContentJson

InvalidRawLines ==
  {i \in NonBlankRawLines :
     IsInvalidLine(RawLines[i]) \/ IsInvalidContent(RawLines[i])}

AnthropicStatusOf(native) ==
  CASE native = "in_progress" -> "in_progress"
    [] native = "ended" -> "completed"
    [] native = "canceling" -> "cancelling"
    [] OTHER -> "failed"

\* C27: the status of the Batch an Anthropic getBatch call resolved with is
\* decided by the vendor's processing_status alone, whatever the request
\* counts are: in particular `completed` for every ended batch, also when no
\* request succeeded; it is never validating, expired or cancelled.  And
\* getObjectBatch, given a `completed` batch by the model, has asked the
\* model for the results whatever the batch's request counts are, and
\* returns them with the batch once they arrive.
C27_AnthropicStatusIgnoresCounts ==
  /\ (opProvider = "anthropic" /\ opName = "getBatch" /\ opPc = "resolved") =>
       /\ opResult.status = AnthropicStatusOf(opBatch.processing_status)
       /\ opBatch.processing_status = "ended" => opResult.status = "completed"
       /\ opResult.status \notin {"validating", "expired", "cancelled"}
  /\ (IsGetObjectBatch /\ fBatch # None /\ fBatch.status = "completed") =>
       /\ ResultsCalls # {}
       /\ (Len(fReplies) = 2 /\ fReplies[2].how = "resolved") =>
            fReturn = [batch |-> fBatch, results |-> fReplies[2].value]

C27_Witness ==
  /\ opProvider = "anthropic"
  /\ opName = "getBatch"
  /\ opPc = "resolved"
  /\ opBatch.processing_status = "ended"
  /\ opBatch.request_counts =
       [processing |-> 0, succeeded |-> 0, errored |-> 1, canceled |-> 1, expired |-> 1]
  /\ opResult.status = "completed"
  /\ opResult.requestCounts.completed = 0


(***************************************************************************)
(* Further claims about the adapters' operations, under SpecAdapter.       *)
(***************************************************************************)
IsAnthropicResults == opProvider = "anthropic" /\ opName = "getBatchResults"

C28_DrainedThenDecoded ==
  IsAnthropicResults =>
    /\ opPc \in {"await_results", "iterating"} => opResult = None
    /\ opPc = "resolved" =>
         /\ opResponseArray = opRaw
         /\ Len(opResult) = Len(opRaw)
    /\ opPc = "resolved" => opCaught = None
    /\ (opCaught # None /\ opResponseArray # <<>>) =>
         /\ opPc = "rejected"
         /\ DOMAIN opResult = {"message", "code", "batchId"}
         /\ opResult.code = "results_retrieval_failed"
         /\ opResult.batchId = opBatchId
         /\ opResult.message = opCaught.message

\* the call resolves only in the step that ends the iteration of the feed,
\* and that step takes no further record
C28_DecodedAtTheEnd ==
  (IsAnthropicResults /\ opPc # "resolved" /\ opPc' = "resolved") =>
    /\ opPc = "iterating"
    /\ opResponseArray' = opResponseArray

\* C28: an Anthropic getBatchResults call collects the records of the feed
\* and decodes none while the feed is still delivering: it holds no result
\* until the iteration has ended, and what it resolves with has one response
\* per record collected.  When the feed fails after it has delivered
\* records, the call has rejected with a BatchError of code
\* results_retrieval_failed carrying the batchId and the feed's message, and
\* with none of the records received.
C28_AnthropicFeedFailureRejects ==
  []C28_DrainedThenDecoded /\ [][C28_DecodedAtTheEnd]_vars

C28_Witness ==
  /\ IsAnthropicResults
  /\ opPc = "rejected"
  /\ Len(opResponseArray) = 2
  /\ opResponseArray[1].result.type = "succeeded"
  /\ opResult.code = "results_retrieval_failed"


\* C30: in what an Anthropic getBatchResults call resolved with, the
\* BatchResponse of a record has `usage` exactly when the record's outcome
\* type is `succeeded`, and then promptTokens is the message's input_tokens,
\* completionTokens its output_tokens, and totalTokens the sum of the two.
C30_AnthropicUsageOfSucceeded ==
  (IsAnthropicResults /\ opPc = "resolved") =>
    \A i \in 1..Len(opRaw) :
      /\ Populated(opResult[i], "usage") <=> opRaw[i].result.type = "succeeded"
      /\ opRaw[i].result.type = "succeeded" =>
           LET usage == opRaw[i].result.message.usage
           IN  /\ DOMAIN opResult[i].usage =
                    {"promptTokens", "completionTokens", "totalTokens"}
               /\ opResult[i].usage.promptTokens = usage.input_tokens
               /\ opResult[i].usage.completionTokens = usage.output_tokens
               /\ opResult[i].usage.totalTokens =
                    usage.input_tokens + usage.output_tokens

C30_Witness ==
  /\ IsAnthropicResults
  /\ opPc = "resolved"
  /\ Len(opRaw) = 2
  /\ opRaw[1].result.type = "succeeded"
  /\ opRaw[2].result.type = "errored"
  /\ opResult[1].usage =
       [promptTokens |-> 100, completionTokens |-> 50, totalTokens |-> 150]
  /\ "usage" \notin DOMAIN opResult[2]


(***************************************************************************)
(* Claim about the polling loop, checked under SpecPoll.                   *)
(***************************************************************************)
IsPolling == pPc \notin {"idle", "await_createObjectBatch"}

ProviderBatchIsTerminal == IsPolling /\ vStatus \in FinalStatuses[pProvider]

PollingStopped == pPc \in {"done", "rejected"}

\* C29: once the provider's batch is in a terminal status (completed, failed,
\* expired or cancelled), a processBatch that is polling it eventually stops
\* (leaves its loop or rejects), whenever every promise in flight settles and
\* every continuation and timer runs.
C29_PollingEventuallyStops == ProviderBatchIsTerminal ~> PollingStopped

=============================================================================
